---- MODULE Spec2Model ----
(***************************************************************************)
(* Model of the e-commerce analytics demo: the keyword-routed agent layer  *)
(* (base_agent.py, financial_agent.py, user_behavior_agent.py), the two    *)
(* MCP servers, the REST API over the seeded dataset, and the life cycle   *)
(* of the dataset (seed script, demo runner, API start-up).                *)
(*                                                                         *)
(* Strings are TLA+ strings; substring search, lower-casing and replace    *)
(* are computed character by character as Python computes them.            *)
(***************************************************************************)
EXTENDS Integers, Sequences, FiniteSets, TLC

VARIABLES
    agents,               \* AgentCoordinator.agents: agent ids in registration order
    interaction_history,  \* AgentCoordinator.interaction_history
    last,                 \* the last operation of the agent / MCP layer and its answer
    openSessions,         \* database sessions opened and not yet closed
    users, products, sessions, page_views, purchases, reviews,   \* the six tables
    seedRuns,             \* completed runs of create_sample_data
    phase,                \* position of the demo runner (run_all.py)
    apiUp,                \* the REST API process has run its start-up hook
    rest,                 \* the last REST request and its response
    runner                \* the demo runner in detail: its position, self.processes, its children

agentVars == <<agents, interaction_history, last, openSessions>>
tables    == <<users, products, sessions, page_views, purchases, reviews>>
dbVars    == <<users, products, sessions, page_views, purchases, reviews, seedRuns>>
vars      == <<agents, interaction_history, last, openSessions,
               users, products, sessions, page_views, purchases, reviews,
               seedRuns, phase, apiUp, rest, runner>>

----------------------------------------------------------------------------
(* Bounds *)

MaxWords == 2        \* words (vocabulary items) per query
MaxHistory == 1      \* entries kept in interaction_history before the model stops querying
MaxOpen == 2         \* open sessions after which the model stops calling tools
SeedUsers == 2             \* users the seed creates (100 in seed_data.py:35)
SeedProducts == 2          \* products the seed creates (50 in seed_data.py:56)
MaxSessionsPerUser == 2    \* sessions per user are 1..this (10 in seed_data.py:77)
MaxPagesViewed == 2        \* pages_viewed per session is 1..this (20 in seed_data.py:87)
MaxPurchasesPerUser == 2   \* purchases per user are 0..this (5 in seed_data.py:116)
MaxRngSeed == 5            \* initial states of the random generator are 0..this
MaxSeedRuns == 2           \* runs of the seed after which the model stops reseeding
MaxCalls == 2              \* coordinator queries after which the model stops querying

----------------------------------------------------------------------------
(* Python string operations *)

\* Python: kw in s
Contains(s, kw) ==
    \E i \in 1..(Len(s) - Len(kw) + 1) : SubSeq(s, i, i + Len(kw) - 1) = kw

\* Python: s.startswith(p)
StartsWith(s, p) == Len(s) >= Len(p) /\ SubSeq(s, 1, Len(p)) = p

LowerChar(c) ==
    CASE c = "A" -> "a" [] c = "B" -> "b" [] c = "C" -> "c" [] c = "D" -> "d"
      [] c = "E" -> "e" [] c = "F" -> "f" [] c = "G" -> "g" [] c = "H" -> "h"
      [] c = "I" -> "i" [] c = "J" -> "j" [] c = "K" -> "k" [] c = "L" -> "l"
      [] c = "M" -> "m" [] c = "N" -> "n" [] c = "O" -> "o" [] c = "P" -> "p"
      [] c = "Q" -> "q" [] c = "R" -> "r" [] c = "S" -> "s" [] c = "T" -> "t"
      [] c = "U" -> "u" [] c = "V" -> "v" [] c = "W" -> "w" [] c = "X" -> "x"
      [] c = "Y" -> "y" [] c = "Z" -> "z" [] OTHER -> c

RECURSIVE Lower(_)
\* Python: s.lower()
Lower(s) ==
    IF Len(s) = 0 THEN ""
    ELSE LowerChar(SubSeq(s, 1, 1)) \o Lower(SubSeq(s, 2, Len(s)))

RECURSIVE Replace(_, _)
\* Python: s.replace(old, ""): every non-overlapping occurrence, left to right
Replace(s, old) ==
    IF Len(s) < Len(old) THEN s
    ELSE IF StartsWith(s, old) THEN Replace(SubSeq(s, Len(old) + 1, Len(s)), old)
    ELSE SubSeq(s, 1, 1) \o Replace(SubSeq(s, 2, Len(s)), old)

RECURSIVE Join(_)
\* " ".join(words)
Join(ws) ==
    IF Len(ws) = 0 THEN ""
    ELSE IF Len(ws) = 1 THEN ws[1]
    ELSE ws[1] \o " " \o Join(Tail(ws))

Range(f) == {f[i] : i \in DOMAIN f}

DigitValue(c) ==
    CASE c = "0" -> 0 [] c = "1" -> 1 [] c = "2" -> 2 [] c = "3" -> 3 [] c = "4" -> 4
      [] c = "5" -> 5 [] c = "6" -> 6 [] c = "7" -> 7 [] c = "8" -> 8 [] c = "9" -> 9

RECURSIVE ParseInt(_)
\* int(s) for a string of digits
ParseInt(s) ==
    IF Len(s) = 0 THEN 0
    ELSE ParseInt(SubSeq(s, 1, Len(s) - 1)) * 10 + DigitValue(SubSeq(s, Len(s), Len(s)))

\* length of the longest run of characters of a class that starts at position j
RunLength(s, j, class) ==
    LET ends == {k \in j..Len(s) : \A m \in j..k : SubSeq(s, m, m) \in class}
    IN  Cardinality(ends)

\* the characters \s and \d match
Spaces == {" "}
Digits == {"0", "1", "2", "3", "4", "5", "6", "7", "8", "9"}

\* re.search(r'user\s+(\d+)', s): <<int(group(1))>> of the leftmost match, <<>> for None
SearchUserId(s) ==
    LET MatchAt(i) ==
            /\ i + 3 <= Len(s) /\ SubSeq(s, i, i + 3) = "user"
            /\ RunLength(s, i + 4, Spaces) >= 1
            /\ RunLength(s, i + 4 + RunLength(s, i + 4, Spaces), Digits) >= 1
        starts == {i \in 1..Len(s) : MatchAt(i)}
    IN  IF starts = {} THEN <<>>
        ELSE LET i == CHOOSE k \in starts : \A m \in starts : k <= m
                 d == i + 4 + RunLength(s, i + 4, Spaces)
             IN  <<ParseInt(SubSeq(s, d, d + RunLength(s, d, Digits) - 1))>>

----------------------------------------------------------------------------
(* Inputs: free-text queries *)

Vocabulary ==
    {"revenue report", "revenue", "report", "profit", "kpi", "financial",
     "payment", "ltv", "lifetime", "forecast", "discount",
     "journey", "session", "engagement", "retention", "device", "segment",
     "user", "show", "PROFIT"}

Queries == {Join(ws) : ws \in UNION {[1..n -> Vocabulary] : n \in 0..MaxWords}}

\* messages of the exceptions a tool or an analysis can raise
ExceptionMessages == {"division by zero", "no such table: purchases"}
Outcomes == {"ok"} \cup ExceptionMessages

----------------------------------------------------------------------------
(* base_agent.py: AgentCapability *)

USER_BEHAVIOR      == "user_behavior"
FINANCIAL_ANALYSIS == "financial_analysis"
PRODUCT_ANALYTICS  == "product_analytics"
SESSION_ANALYSIS   == "session_analysis"
PURCHASE_PATTERNS  == "purchase_patterns"
REVENUE_REPORTING  == "revenue_reporting"
PROFIT_ANALYSIS    == "profit_analysis"
COST_ANALYSIS      == "cost_analysis"

\* the keys of CAPABILITY_KEYWORDS in dictionary (insertion) order
CapabilityOrder ==
    <<USER_BEHAVIOR, FINANCIAL_ANALYSIS, PRODUCT_ANALYTICS, SESSION_ANALYSIS,
      PURCHASE_PATTERNS, REVENUE_REPORTING, PROFIT_ANALYSIS>>

CAPABILITY_KEYWORDS(cap) ==
    CASE cap = USER_BEHAVIOR ->
           {"user", "customer", "behavior", "activity", "engagement",
            "session", "page view", "interaction", "browsing"}
      [] cap = FINANCIAL_ANALYSIS ->
           {"revenue", "profit", "financial", "earnings", "income", "sales",
            "money", "cost", "expense", "margin", "roi", "financial report"}
      [] cap = PRODUCT_ANALYTICS ->
           {"product", "conversion", "performance", "analytics", "metrics"}
      [] cap = SESSION_ANALYSIS ->
           {"session", "duration", "device", "browser", "time spent"}
      [] cap = PURCHASE_PATTERNS ->
           {"purchase", "buy", "order", "transaction", "payment"}
      [] cap = REVENUE_REPORTING ->
           {"revenue", "sales report", "income", "earnings", "financial performance"}
      [] cap = PROFIT_ANALYSIS ->
           {"profit", "margin", "profitability", "cost analysis", "roi"}
      [] OTHER -> {}

\* a matching that searches the query as it was typed
match_capability_mut(query) ==
    LET Matches(cap) == \E keyword \in CAPABILITY_KEYWORDS(cap) : Contains(query, keyword)
    IN  SelectSeq(CapabilityOrder, Matches)

\* AgentCapability.match_capability: the capabilities, in dictionary order, one of
\* whose keywords occurs in the lower-cased query
match_capability(query) ==
    LET query_lower == Lower(query)
        Matches(cap) == \E keyword \in CAPABILITY_KEYWORDS(cap) : Contains(query_lower, keyword)
    IN  SelectSeq(CapabilityOrder, Matches)

----------------------------------------------------------------------------
(* The two agents *)

BEHAVIOR  == "user_behavior_agent"
FINANCIAL == "financial_reporting_agent"
AgentIds  == {BEHAVIOR, FINANCIAL}

\* BaseAgent.name as set by each __init__
AgentName(a) == IF a = BEHAVIOR THEN "User Behavior Analyst" ELSE "Financial Analyst"

get_capabilities(a) ==
    IF a = BEHAVIOR
    THEN {USER_BEHAVIOR, SESSION_ANALYSIS, PRODUCT_ANALYTICS}
    ELSE {FINANCIAL_ANALYSIS, REVENUE_REPORTING, PROFIT_ANALYSIS, COST_ANALYSIS}

behavior_keywords ==
    {"user", "customer", "behavior", "session", "engagement",
     "activity", "interaction", "browsing", "page view", "journey",
     "retention", "segmentation", "device", "usage pattern"}

financial_keywords ==
    {"revenue", "profit", "financial", "earnings", "income", "sales",
     "money", "cost", "expense", "margin", "roi", "ltv", "lifetime value",
     "financial report", "profit margin", "revenue report", "kpi",
     "payment", "discount", "forecast", "profitability"}

can_handle_query(a, query) ==
    LET query_lower == Lower(query)
    IN  \E keyword \in (IF a = BEHAVIOR THEN behavior_keywords ELSE financial_keywords) :
            Contains(query_lower, keyword)

\* self.tools of each agent: tool name -> bound method
behavior_tools ==
    [t \in {"analyze_user_behavior", "get_user_journey", "analyze_session_patterns",
            "get_user_segmentation", "analyze_engagement_metrics", "get_user_retention",
            "analyze_page_interactions", "get_device_behavior"} |-> "_" \o t]

financial_tools ==
    [t \in {"generate_revenue_report", "analyze_profit_margins", "get_financial_kpis",
            "analyze_payment_methods", "calculate_customer_ltv", "generate_sales_forecast",
            "analyze_product_profitability", "get_cohort_revenue",
            "analyze_discount_impact", "generate_financial_summary"} |-> "_" \o t]

tools(a) == IF a = BEHAVIOR THEN behavior_tools ELSE financial_tools

\* the "name" entries of get_available_tools(), in list order
get_available_tools(a) ==
    IF a = BEHAVIOR
    THEN <<"analyze_user_behavior", "get_user_journey", "analyze_session_patterns",
           "get_user_segmentation", "analyze_engagement_metrics", "get_user_retention",
           "analyze_page_interactions", "get_device_behavior">>
    ELSE <<"generate_revenue_report", "analyze_profit_margins", "get_financial_kpis",
           "analyze_payment_methods", "calculate_customer_ltv", "generate_sales_forecast",
           "analyze_product_profitability", "get_cohort_revenue",
           "analyze_discount_impact", "generate_financial_summary">>

\* the if/elif chain with the first two branches exchanged
financial_select_mut(query) ==
    LET q == Lower(query)
    IN  IF Contains(q, "profit") THEN "_analyze_profit_from_query"
        ELSE IF Contains(q, "revenue") /\ Contains(q, "report")
             THEN "_generate_revenue_report_from_query"
        ELSE IF Contains(q, "kpi") \/ Contains(q, "financial")
             THEN "_get_financial_kpis_from_query"
        ELSE IF Contains(q, "payment") THEN "_analyze_payment_methods_from_query"
        ELSE IF Contains(q, "ltv") \/ Contains(q, "lifetime") THEN "_calculate_ltv_from_query"
        ELSE IF Contains(q, "forecast") THEN "_generate_forecast_from_query"
        ELSE IF Contains(q, "discount") THEN "_analyze_discounts_from_query"
        ELSE "_generate_financial_summary"

\* FinancialReportingAgent.process_query: the if/elif chain that picks the analysis
financial_select(query) ==
    LET q == Lower(query)
    IN  IF Contains(q, "revenue") /\ Contains(q, "report")
        THEN "_generate_revenue_report_from_query"
        ELSE IF Contains(q, "profit") THEN "_analyze_profit_from_query"
        ELSE IF Contains(q, "kpi") \/ Contains(q, "financial")
             THEN "_get_financial_kpis_from_query"
        ELSE IF Contains(q, "payment") THEN "_analyze_payment_methods_from_query"
        ELSE IF Contains(q, "ltv") \/ Contains(q, "lifetime") THEN "_calculate_ltv_from_query"
        ELSE IF Contains(q, "forecast") THEN "_generate_forecast_from_query"
        ELSE IF Contains(q, "discount") THEN "_analyze_discounts_from_query"
        ELSE "_generate_financial_summary"

\* UserBehaviorAgent.process_query: the if/elif chain that picks the analysis
behavior_select(query) ==
    LET q == Lower(query)
    IN  IF Contains(q, "journey") THEN "_analyze_user_journey_from_query"
        ELSE IF Contains(q, "session") THEN "_analyze_sessions_from_query"
        ELSE IF Contains(q, "engagement") THEN "_analyze_engagement_from_query"
        ELSE IF Contains(q, "retention") THEN "_analyze_retention_from_query"
        ELSE IF Contains(q, "device") THEN "_analyze_device_behavior_from_query"
        ELSE IF Contains(q, "segment") THEN "_analyze_segmentation_from_query"
        ELSE "_analyze_general_behavior"

\* the tool methods an analysis of process_query calls, in call order; recent is the
\* number of sessions the default journey analysis looks at
analysis_calls(analysis, query, recent) ==
    LET user_match == SearchUserId(Lower(query))
    IN  CASE analysis = "_analyze_user_journey_from_query" ->
               IF user_match # <<>> THEN <<"_get_user_journey">>
               ELSE [i \in 1..recent |-> "_get_user_journey"]
          [] analysis = "_analyze_sessions_from_query" -> <<"_analyze_session_patterns">>
          [] analysis = "_analyze_engagement_from_query" -> <<"_analyze_engagement_metrics">>
          [] analysis = "_analyze_retention_from_query" -> <<>>
          [] analysis = "_analyze_device_behavior_from_query" -> <<"_analyze_session_patterns">>
          [] analysis = "_analyze_segmentation_from_query" -> <<"_get_user_segmentation">>
          [] analysis = "_analyze_general_behavior" ->
               IF user_match # <<>> THEN <<"_analyze_user_behavior">>
               ELSE <<"_analyze_engagement_metrics">>
          [] analysis = "_generate_revenue_report_from_query" -> <<"_generate_revenue_report">>
          [] analysis = "_analyze_profit_from_query" -> <<"_analyze_profit_margins">>
          [] analysis = "_get_financial_kpis_from_query" -> <<"_get_financial_kpis">>
          [] analysis = "_analyze_payment_methods_from_query" -> <<"_analyze_payment_methods">>
          [] analysis = "_calculate_ltv_from_query" -> <<"_calculate_customer_ltv">>
          [] analysis = "_generate_forecast_from_query" -> <<"_generate_sales_forecast">>
          [] analysis = "_analyze_discounts_from_query" -> <<"_analyze_discount_impact">>
          [] analysis = "_generate_financial_summary" ->
               <<"_generate_revenue_report", "_analyze_profit_margins", "_get_financial_kpis">>

\* the prefix each agent puts before a stringified exception
ErrorPrefix(a) ==
    IF a = BEHAVIOR THEN "User Behavior Agent error: " ELSE "Financial Reporting Agent error: "

\* process_query of either agent: run the selected analysis inside try/except Exception;
\* outcome is "ok" or the message of the exception the analysis raises
process_query(a, query, outcome) ==
    LET analysis == IF a = BEHAVIOR THEN behavior_select(query) ELSE financial_select(query)
    IN  [ran        |-> <<analysis>>,
         payload    |-> IF outcome = "ok" THEN "result" ELSE "error",
         text       |-> IF outcome = "ok" THEN "result of " \o analysis
                        ELSE ErrorPrefix(a) \o outcome,
         propagated |-> FALSE]

\* call_tool without its try/except
call_tool_mut(a, tool_name, outcome) ==
    IF tool_name \notin DOMAIN tools(a)
    THEN [ran |-> <<>>, payload |-> "error",
          text |-> "Tool " \o tool_name \o " not available for agent " \o AgentName(a),
          propagated |-> FALSE]
    ELSE [ran |-> <<tools(a)[tool_name]>>,
          payload |-> IF outcome = "ok" THEN "result" ELSE "",
          text |-> IF outcome = "ok" THEN "result of " \o tools(a)[tool_name] ELSE outcome,
          propagated |-> outcome # "ok"]

\* BaseAgent.call_tool
call_tool(a, tool_name, outcome) ==
    IF tool_name \notin DOMAIN tools(a)
    THEN [ran |-> <<>>, payload |-> "error",
          text |-> "Tool " \o tool_name \o " not available for agent " \o AgentName(a),
          propagated |-> FALSE]
    ELSE [ran |-> <<tools(a)[tool_name]>>,
          payload |-> IF outcome = "ok" THEN "result" ELSE "error",
          text |-> IF outcome = "ok" THEN "result of " \o tools(a)[tool_name]
                   ELSE "Error calling tool " \o tool_name \o ": " \o outcome,
          propagated |-> FALSE]

----------------------------------------------------------------------------
(* base_agent.py: AgentCoordinator *)

\* register_agent: self.agents[agent.agent_id] = agent (a dict keeps the position
\* of a key that is assigned again)
register_agent(registry, a) ==
    IF a \in Range(registry) THEN registry ELSE Append(registry, a)

\* a routing without the "return all agents" fallback
route_query_mut(registry, query) ==
    LET capabilities_needed == Range(match_capability(query))
        Suitable(a) == \E cap \in capabilities_needed : cap \in get_capabilities(a)
    IN  SelectSeq(registry, Suitable)

\* AgentCoordinator.route_query
route_query(registry, query) ==
    LET capabilities_needed == Range(match_capability(query))
        Suitable(a) == \E cap \in capabilities_needed : cap \in get_capabilities(a)
        suitable_agents == SelectSeq(registry, Suitable)
    IN  IF suitable_agents = <<>> THEN registry ELSE suitable_agents

\* a coordinator that asks every routed agent, whether it can handle the query or not
coordinator_process_query_mut(registry, history, query, outs) ==
    LET routed == route_query(registry, query)
        Entry(a) == LET r == process_query(a, query, outs[a])
                    IN  [agent_id |-> a, agent_name |-> AgentName(a),
                         kind |-> IF r.propagated THEN "error" ELSE "result",
                         payload |-> r.payload, text |-> r.text, ran |-> r.ran]
        results == [i \in 1..Len(routed) |-> Entry(routed[i])]
    IN  [query |-> query,
         agents_consulted |-> Len(routed),
         routed |-> routed,
         results |-> results,
         history |-> Append(history, [query |-> query, agents_used |-> routed,
                                      results_count |-> Len(results)])]

\* AgentCoordinator.process_query: outs[a] is the outcome of agent a's analysis.
\* Returns the response, the agents' invoked analyses and the new history.
coordinator_process_query(registry, history, query, outs) ==
    LET routed == route_query(registry, query)
        Handles(a) == can_handle_query(a, query)
        handling == SelectSeq(routed, Handles)
        Entry(a) == LET r == process_query(a, query, outs[a])
                    IN  [agent_id |-> a, agent_name |-> AgentName(a),
                         kind |-> IF r.propagated THEN "error" ELSE "result",
                         payload |-> r.payload, text |-> r.text, ran |-> r.ran]
        results == [i \in 1..Len(handling) |-> Entry(handling[i])]
    IN  [query |-> query,
         agents_consulted |-> Len(routed),
         routed |-> routed,
         results |-> results,
         history |-> Append(history, [query |-> query, agents_used |-> routed,
                                      results_count |-> Len(results)])]

----------------------------------------------------------------------------
(* seed_data.py: the dataset.  Rows keep the key columns and the columns the   *)
(* queries read.  The random module is a pseudo-random generator: the dataset  *)
(* is a function of the generator's initial state, which is drawn from         *)
(* 0..MaxRngSeed; every random.* call advances the generator.                  *)

\* one step of the generator (a linear congruential generator stands for random's)
Rand(r) == (75 * r + 74) % 65537

\* random.randint(lo, hi) read off generator state r
RandInt(r, lo, hi) == lo + (r % (hi - lo + 1))

devices == <<"mobile", "desktop", "tablet">>
payment_methods == <<"credit_card", "debit_card", "paypal", "apple_pay", "google_pay">>

\* users 1..SeedUsers (ids restart at 1: the tables were emptied before)
SeedUserRows ==
    [i \in 1..SeedUsers |-> [id |-> i, email |-> "user" \o ToString(i) \o "@example.com"]]

RECURSIVE SeedProductRows(_, _, _)
\* products: price is drawn per product (whole dollars)
SeedProductRows(i, r, acc) ==
    IF i > SeedProducts THEN [rows |-> acc, rng |-> r]
    ELSE LET r1 == Rand(r)
         IN  SeedProductRows(i + 1, r1,
                 Append(acc, [id |-> i, price |-> RandInt(r1, 10, 1000)]))

RECURSIVE AddSessions(_, _, _, _)
AddSessions(u, n, r, acc) ==
    IF n = 0 THEN [rows |-> acc, rng |-> r]
    ELSE LET r1 == Rand(r)
             r2 == Rand(r1)
             r3 == Rand(r2)
         IN  AddSessions(u, n - 1, r3,
                 Append(acc, [id |-> Len(acc) + 1, user_id |-> u,
                              days_ago |-> RandInt(r1, 0, 30),
                              pages_viewed |-> RandInt(r2, 1, MaxPagesViewed),
                              device_type |-> devices[RandInt(r3, 1, 3)]]))

RECURSIVE SeedSessionRows(_, _, _)
\* for user in users: for _ in range(random.randint(1, 10))
SeedSessionRows(u, r, acc) ==
    IF u > SeedUsers THEN [rows |-> acc, rng |-> r]
    ELSE LET r1 == Rand(r)
             added == AddSessions(u, RandInt(r1, 1, MaxSessionsPerUser), r1, acc)
         IN  SeedSessionRows(u + 1, added.rng, added.rows)

RECURSIVE AddPageViews(_, _, _, _)
AddPageViews(sess, n, r, acc) ==
    IF n = 0 THEN [rows |-> acc, rng |-> r]
    ELSE LET r1 == Rand(r)
             r2 == Rand(r1)
             \* random.choice(products).id if random.choice([True, False]) else None
             product_id == IF RandInt(r2, 0, 1) = 1
                           THEN <<RandInt(r1, 1, SeedProducts)>> ELSE <<>>
         IN  AddPageViews(sess, n - 1, r2,
                 Append(acc, [id |-> Len(acc) + 1, session_id |-> sess.id,
                              product_id |-> product_id]))

RECURSIVE SeedPageViewRows(_, _, _, _)
\* for session in sessions: for _ in range(session.pages_viewed)
SeedPageViewRows(sess, i, r, acc) ==
    IF i > Len(sess) THEN [rows |-> acc, rng |-> r]
    ELSE LET added == AddPageViews(sess[i], sess[i].pages_viewed, r, acc)
         IN  SeedPageViewRows(sess, i + 1, added.rng, added.rows)

RECURSIVE AddPurchases(_, _, _, _, _)
\* one purchase per round.  Money is kept in cents and a discount in percent:
\* total_amount = round(price * quantity * (1 - discount), 2); the discount is
\* drawn (random.uniform(0, 0.3)) only when random.choice([True, False]) says so
AddPurchases(prods, u, n, r, acc) ==
    IF n = 0 THEN [rows |-> acc, rng |-> r]
    ELSE LET r1 == Rand(r)
             r2 == Rand(r1)
             r3 == Rand(r2)
             discounted == RandInt(r3, 0, 1) = 1
             r4 == IF discounted THEN Rand(r3) ELSE r3
             r5 == Rand(r4)
             r6 == Rand(r5)
             product == prods[RandInt(r1, 1, Len(prods))]
             quantity == RandInt(r2, 1, 3)
             discount == IF discounted THEN RandInt(r4, 0, 30) ELSE 0
         IN  AddPurchases(prods, u, n - 1, r6,
                 Append(acc, [id |-> Len(acc) + 1, user_id |-> u, product_id |-> product.id,
                              quantity |-> quantity,
                              total_amount |-> product.price * quantity * (100 - discount),
                              days_ago |-> RandInt(r5, 0, 30),
                              payment_method |-> payment_methods[RandInt(r6, 1, 5)],
                              discount_applied |-> discount]))

RECURSIVE SeedPurchaseRows(_, _, _, _)
\* for user in users: for _ in range(random.randint(0, 5))
SeedPurchaseRows(prods, u, r, acc) ==
    IF u > SeedUsers THEN [rows |-> acc, rng |-> r]
    ELSE LET r1 == Rand(r)
             added == AddPurchases(prods, u, RandInt(r1, 0, MaxPurchasesPerUser), r1, acc)
         IN  SeedPurchaseRows(prods, u + 1, added.rng, added.rows)

RECURSIVE SeedReviewRows_mut(_, _, _, _)
\* a seed whose reviewers review a product drawn from the whole catalogue
SeedReviewRows_mut(purch, i, r, acc) ==
    IF i > Len(purch) THEN [rows |-> acc, rng |-> r]
    ELSE LET r1 == Rand(r)
             r2 == Rand(r1)
         IN  IF RandInt(r1, 0, 1) = 1
             THEN SeedReviewRows_mut(purch, i + 1, r2,
                      Append(acc, [id |-> Len(acc) + 1, user_id |-> purch[i].user_id,
                                   product_id |-> RandInt(r2, 1, SeedProducts),
                                   rating |-> RandInt(r2, 1, 5)]))
             ELSE SeedReviewRows_mut(purch, i + 1, r1, acc)

RECURSIVE SeedReviewRows(_, _, _, _)
\* for every purchase, in user order: a review with probability 1/2
SeedReviewRows(purch, i, r, acc) ==
    IF i > Len(purch) THEN [rows |-> acc, rng |-> r]
    ELSE LET r1 == Rand(r)
             r2 == Rand(r1)
         IN  IF RandInt(r1, 0, 1) = 1
             THEN SeedReviewRows(purch, i + 1, r2,
                      Append(acc, [id |-> Len(acc) + 1, user_id |-> purch[i].user_id,
                                   product_id |-> purch[i].product_id,
                                   rating |-> RandInt(r2, 1, 5)]))
             ELSE SeedReviewRows(purch, i + 1, r1, acc)

\* create_sample_data run to completion from generator state r0
SeedData(r0) ==
    LET p  == SeedProductRows(1, r0, <<>>)
        s  == SeedSessionRows(1, p.rng, <<>>)
        pv == SeedPageViewRows(s.rows, 1, s.rng, <<>>)
        pu == SeedPurchaseRows(p.rows, 1, pv.rng, <<>>)
        rv == SeedReviewRows(pu.rows, 1, pu.rng, <<>>)
    IN  [users |-> SeedUserRows, products |-> p.rows, sessions |-> s.rows,
         page_views |-> pv.rows, purchases |-> pu.rows, reviews |-> rv.rows]

RngSeeds == 0..MaxRngSeed

----------------------------------------------------------------------------
(* State shared by the specifications *)

NoOp ==
    [op |-> "none", agent |-> "", query |-> "", name |-> "", outcome |-> "ok",
     ran |-> <<>>, payload |-> "", text |-> "", propagated |-> FALSE,
     routed |-> <<>>, listed |-> <<>>, opened |-> 0, closed |-> 0, returned |-> "",
     raised |-> "", args |-> <<>>, divisors |-> <<>>, result |-> <<>>, calls |-> <<>>]

\* an Optional[int] is <<>> (None, parameter omitted) or <<v>>
NoRequest ==
    [endpoint |-> "none", id |-> 0, filter |-> <<>>, skip |-> <<>>, limit |-> <<>>,
     status |-> 0, body |-> <<>>, queried |-> FALSE]

\* DemoRunner after __init__, with run about to enter its try block: the handlers
\* of SIGINT and SIGTERM are installed, self.processes is empty, no child exists.
\* pc names the statement the runner executes next; status is the exit status.
NoRunner ==
    [pc |-> "setup_environment", processes |-> <<>>, started |-> {},
     terminated |-> {}, killed |-> {}, environment |-> "", seed |-> "",
     signals |-> 0, status |-> <<>>]

\* before anything has run: no agent registered, no table created, runner not started
Init ==
    /\ agents = <<>>
    /\ interaction_history = <<>>
    /\ last = NoOp
    /\ openSessions = 0
    /\ users = <<>> /\ products = <<>> /\ sessions = <<>>
    /\ page_views = <<>> /\ purchases = <<>> /\ reviews = <<>>
    /\ seedRuns = 0
    /\ phase = "idle"
    /\ apiUp = FALSE
    /\ rest = NoRequest
    /\ runner = NoRunner

----------------------------------------------------------------------------
(* Agent layer: operations on the agents and the coordinator *)

\* tool names offered to call_tool: the registered ones and some that are not
ToolNameInputs ==
    DOMAIN behavior_tools \cup DOMAIN financial_tools \cup {"generate_summary", "get_kpis", "export_csv"}

\* calls are synchronous: one call at a time, the next one starts after the
\* previous answer has been handed to the caller
Idle == last.op = "none" /\ rest.endpoint = "none"

\* the caller takes the answer of the finished call
Deliver ==
    /\ ~Idle
    /\ last' = NoOp
    /\ rest' = NoRequest
    /\ UNCHANGED <<runner, agents, interaction_history, openSessions, dbVars, phase, apiUp>>

RegisterAgent(a) ==
    /\ Idle
    /\ agents' = register_agent(agents, a)
    /\ last' = [NoOp EXCEPT !.op = "register_agent", !.agent = a]
    /\ UNCHANGED <<runner, interaction_history, openSessions, dbVars, phase, apiUp, rest>>

RouteQuery(q) ==
    /\ Idle
    /\ last' = [NoOp EXCEPT !.op = "route_query", !.query = q,
                            !.routed = route_query(agents, q)]
    /\ UNCHANGED <<runner, agents, interaction_history, openSessions, dbVars, phase, apiUp, rest>>

AgentProcessQuery(a, q, outcome) ==
    /\ Idle
    /\ LET r == process_query(a, q, outcome)
       IN  last' = [NoOp EXCEPT !.op = "process_query", !.agent = a, !.query = q,
                                !.outcome = outcome, !.ran = r.ran, !.payload = r.payload,
                                !.text = r.text, !.propagated = r.propagated,
                                !.calls = analysis_calls(r.ran[1], q,
                                                         IF Len(sessions) < 5 THEN Len(sessions) ELSE 5)]
    /\ UNCHANGED <<runner, agents, interaction_history, openSessions, dbVars, phase, apiUp, rest>>

AgentCallTool(a, tool_name, outcome) ==
    /\ Idle
    /\ LET r == call_tool(a, tool_name, outcome)
       IN  last' = [NoOp EXCEPT !.op = "call_tool", !.agent = a, !.name = tool_name,
                                !.outcome = outcome, !.ran = r.ran, !.payload = r.payload,
                                !.text = r.text, !.propagated = r.propagated]
    /\ UNCHANGED <<runner, agents, interaction_history, openSessions, dbVars, phase, apiUp, rest>>

NextAgents ==
    \/ Idle /\ \E a \in AgentIds : RegisterAgent(a)
    \/ Idle /\ \E q \in Queries : RouteQuery(q)
    \/ Idle /\ \E a \in AgentIds, q \in Queries, o \in Outcomes : AgentProcessQuery(a, q, o)
    \/ Idle /\ \E a \in AgentIds, t \in ToolNameInputs, o \in Outcomes : AgentCallTool(a, t, o)
    \/ Deliver

SpecAgents == Init /\ [][NextAgents]_vars

----------------------------------------------------------------------------
(* Claims on the agent layer *)

\* the branch tables of the two process_query methods as the claim lists them:
\* a branch applies when every group has a keyword that occurs in the query
FinancialBranchOrder ==
    << [groups |-> {{"revenue"}, {"report"}}, analysis |-> "_generate_revenue_report_from_query"],
       [groups |-> {{"profit"}},            analysis |-> "_analyze_profit_from_query"],
       [groups |-> {{"kpi", "financial"}},  analysis |-> "_get_financial_kpis_from_query"],
       [groups |-> {{"payment"}},           analysis |-> "_analyze_payment_methods_from_query"],
       [groups |-> {{"ltv", "lifetime"}},   analysis |-> "_calculate_ltv_from_query"],
       [groups |-> {{"forecast"}},          analysis |-> "_generate_forecast_from_query"],
       [groups |-> {{"discount"}},          analysis |-> "_analyze_discounts_from_query"] >>

BehaviorBranchOrder ==
    << [groups |-> {{"journey"}},    analysis |-> "_analyze_user_journey_from_query"],
       [groups |-> {{"session"}},    analysis |-> "_analyze_sessions_from_query"],
       [groups |-> {{"engagement"}}, analysis |-> "_analyze_engagement_from_query"],
       [groups |-> {{"retention"}},  analysis |-> "_analyze_retention_from_query"],
       [groups |-> {{"device"}},     analysis |-> "_analyze_device_behavior_from_query"],
       [groups |-> {{"segment"}},    analysis |-> "_analyze_segmentation_from_query"] >>

BranchApplies(b, q) == \A g \in b.groups : \E kw \in g : Contains(Lower(q), kw)

FirstApplicable(order, fallback, q) ==
    LET hits == {i \in DOMAIN order : BranchApplies(order[i], q)}
    IN  IF hits = {} THEN fallback
        ELSE order[CHOOSE i \in hits : \A j \in hits : i <= j].analysis

ExpectedAnalysis(a, q) ==
    IF a = BEHAVIOR
    THEN FirstApplicable(BehaviorBranchOrder, "_analyze_general_behavior", q)
    ELSE FirstApplicable(FinancialBranchOrder, "_generate_financial_summary", q)

\* C1: process_query of either agent runs exactly one analysis, the one of the first
\* branch (in the fixed order) whose condition the lower-cased query satisfies, or
\* the general analysis when none is satisfied; later keywords never override.
C1_FirstMatchingBranchRuns ==
    last.op = "process_query" =>
        last.ran = <<ExpectedAnalysis(last.agent, last.query)>>

\* a financial query that satisfies the 'profit' branch and the later 'kpi' branch
C1_Witness ==
    /\ last.op = "process_query" /\ last.agent = FINANCIAL
    /\ Contains(Lower(last.query), "profit") /\ Contains(Lower(last.query), "kpi")
    /\ ~Contains(Lower(last.query), "revenue")
    /\ last.ran = <<"_analyze_profit_from_query">>

\* C2: route_query returns exactly the registered agents that declare a matched
\* capability, or all registered agents when none does; the list has no agent
\* twice, only registered agents, and is non-empty once an agent is registered.
C2_RouteQueryExact ==
    last.op = "route_query" =>
        LET matched == Range(match_capability(last.query))
            qualifying == {a \in Range(agents) : get_capabilities(a) \cap matched # {}}
            expected == IF qualifying = {} THEN Range(agents) ELSE qualifying
        IN  /\ Range(last.routed) = expected
            /\ Cardinality(Range(last.routed)) = Len(last.routed)
            /\ Range(last.routed) \subseteq Range(agents)
            /\ (agents # <<>> => last.routed # <<>>)

\* both agents registered, a query that matches no capability: all agents returned
C2_Witness ==
    /\ last.op = "route_query" /\ Len(agents) = 2
    /\ match_capability(last.query) = <<>>
    /\ Len(last.routed) = 2

\* C4: call_tool and process_query never let an exception out: an unregistered tool
\* name gives an error payload and invokes nothing; an exception of the invoked tool
\* or of the selected analysis gives an error payload carrying its message.
C4_NoExceptionEscapes ==
    last.op \in {"call_tool", "process_query"} =>
        /\ ~last.propagated
        /\ (last.op = "call_tool" /\ last.name \notin DOMAIN tools(last.agent)
              => last.payload = "error" /\ last.ran = <<>>)
        /\ (last.ran # <<>> /\ last.outcome # "ok"
              => last.payload = "error" /\ Contains(last.text, last.outcome))

\* a registered tool was invoked, raised, and the caller got an error payload
C4_Witness ==
    /\ last.op = "call_tool" /\ last.ran # <<>> /\ last.outcome = "division by zero"
    /\ last.payload = "error"

----------------------------------------------------------------------------
(* api/crud.py and api/main.py: the REST API *)

DefaultSkip == 0       \* Query(0, ge=0)
DefaultLimit == 100    \* Query(100, ge=1, le=1000)
MinLimit == 1
MaxLimit == 1000

Min(a, b) == IF a <= b THEN a ELSE b
Max(a, b) == IF a >= b THEN a ELSE b

\* Python truth value of an Optional[int]: None and 0 are false
Truthy(opt) == opt # <<>> /\ opt[1] # 0

\* query.offset(skip).limit(limit).all()
OffsetLimit(rows, skip, limit) ==
    IF skip >= Len(rows) THEN <<>>
    ELSE SubSeq(rows, skip + 1, Min(skip + limit, Len(rows)))

\* query.filter(...).first(): <<>> stands for None
First(rows) == IF rows = <<>> THEN <<>> ELSE <<rows[1]>>

crud_get_users(db, skip, limit) == OffsetLimit(db.users, skip, limit)

\* a lookup that forgets its filter and returns the first row of the table
crud_get_user_mut(db, user_id) == First(db.users)

crud_get_user(db, user_id) ==
    LET Match(u) == u.id = user_id IN First(SelectSeq(db.users, Match))

crud_get_products(db, skip, limit) == OffsetLimit(db.products, skip, limit)

crud_get_product(db, product_id) ==
    LET Match(p) == p.id = product_id IN First(SelectSeq(db.products, Match))

crud_get_user_sessions(db, user_id, skip, limit) ==
    LET Match(r) == r.user_id = user_id[1]
        query == IF Truthy(user_id) THEN SelectSeq(db.sessions, Match) ELSE db.sessions
    IN  OffsetLimit(query, skip, limit)

crud_get_purchases(db, user_id, skip, limit) ==
    LET Match(r) == r.user_id = user_id[1]
        query == IF Truthy(user_id) THEN SelectSeq(db.purchases, Match) ELSE db.purchases
    IN  OffsetLimit(query, skip, limit)

crud_get_reviews(db, product_id, skip, limit) ==
    LET Match(r) == r.product_id = product_id[1]
        query == IF Truthy(product_id) THEN SelectSeq(db.reviews, Match) ELSE db.reviews
    IN  OffsetLimit(query, skip, limit)

crud_get_page_views(db, session_id, skip, limit) ==
    LET Match(r) == r.session_id = session_id[1]
        query == IF Truthy(session_id) THEN SelectSeq(db.page_views, Match) ELSE db.page_views
    IN  OffsetLimit(query, skip, limit)

RECURSIVE SumAmount(_)
\* func.sum(Purchase.total_amount) over the selected rows (0 for none, after "or 0")
SumAmount(rows) == IF rows = <<>> THEN 0 ELSE rows[1].total_amount + SumAmount(Tail(rows))

crud_get_user_behavior_summary(db, user_id) ==
    LET user == crud_get_user(db, user_id)
        OfUser(r) == r.user_id = user_id
    IN  IF user = <<>> THEN <<>>
        ELSE << [user_id |-> user[1].id,
                 total_sessions |-> Len(SelectSeq(db.sessions, OfUser)),
                 total_purchases |-> Len(SelectSeq(db.purchases, OfUser)),
                 total_spent |-> SumAmount(SelectSeq(db.purchases, OfUser))] >>

\* divisors: what conversion_rate divides by, in hundredths (no division when
\* the product has no page view)
crud_get_product_analytics(db, product_id) ==
    LET product == crud_get_product(db, product_id)
        Viewed(r) == r.product_id = <<product_id>>
        OfProduct(r) == r.product_id = product_id
        total_views == Len(SelectSeq(db.page_views, Viewed))
    IN  IF product = <<>> THEN <<>>
        ELSE << [product_id |-> product[1].id,
                 total_views |-> total_views,
                 total_purchases |-> Len(SelectSeq(db.purchases, OfProduct)),
                 total_revenue |-> SumAmount(SelectSeq(db.purchases, OfProduct)),
                 divisors |-> IF total_views > 0 THEN <<100 * total_views>> ELSE <<>>] >>

\* the tables as one record, as a database session sees them
Database ==
    [users |-> users, products |-> products, sessions |-> sessions,
     page_views |-> page_views, purchases |-> purchases, reviews |-> reviews]

ListEndpoints == {"/users", "/products", "/sessions", "/purchases", "/reviews", "/page-views"}
DetailEndpoints == {"/users/{id}", "/users/{id}/behavior", "/products/{id}", "/products/{id}/analytics"}

\* the list handlers of main.py behind FastAPI's validation of skip and limit:
\* a value out of range is answered 422 before the handler runs
ListResponse(db, endpoint, filter, skipOpt, limitOpt) ==
    LET skip == IF skipOpt = <<>> THEN DefaultSkip ELSE skipOpt[1]
        limit == IF limitOpt = <<>> THEN DefaultLimit ELSE limitOpt[1]
    IN  IF ~(skip >= 0 /\ limit >= MinLimit /\ limit <= MaxLimit)
        THEN [status |-> 422, body |-> <<>>, queried |-> FALSE]
        ELSE [status |-> 200, queried |-> TRUE,
              body |-> CASE endpoint = "/users" -> crud_get_users(db, skip, limit)
                         [] endpoint = "/products" -> crud_get_products(db, skip, limit)
                         [] endpoint = "/sessions" -> crud_get_user_sessions(db, filter, skip, limit)
                         [] endpoint = "/purchases" -> crud_get_purchases(db, filter, skip, limit)
                         [] endpoint = "/reviews" -> crud_get_reviews(db, filter, skip, limit)
                         [] endpoint = "/page-views" -> crud_get_page_views(db, filter, skip, limit)]

\* get_user, get_user_behavior_summary, get_product, get_product_analytics of main.py
DetailResponse(db, endpoint, id) ==
    LET found == CASE endpoint = "/users/{id}" -> crud_get_user(db, id)
                   [] endpoint = "/users/{id}/behavior" -> crud_get_user_behavior_summary(db, id)
                   [] endpoint = "/products/{id}" -> crud_get_product(db, id)
                   [] endpoint = "/products/{id}/analytics" -> crud_get_product_analytics(db, id)
    IN  IF found = <<>>
        THEN [status |-> 404, body |-> <<>>, queried |-> TRUE]
        ELSE [status |-> 200, body |-> found, queried |-> TRUE]

RestList(endpoint, filter, skip, limit) ==
    /\ Idle /\ apiUp
    /\ LET r == ListResponse(Database, endpoint, filter, skip, limit)
       IN  rest' = [endpoint |-> endpoint, id |-> 0, filter |-> filter, skip |-> skip,
                    limit |-> limit, status |-> r.status, body |-> r.body,
                    queried |-> r.queried]
    /\ UNCHANGED <<runner, agentVars, dbVars, phase, apiUp>>

\* a detail handler that records the visit as a page view
RestDetail_mut(endpoint, id) ==
    /\ Idle /\ apiUp
    /\ LET r == DetailResponse(Database, endpoint, id)
       IN  rest' = [endpoint |-> endpoint, id |-> id, filter |-> <<>>, skip |-> <<>>,
                    limit |-> <<>>, status |-> r.status, body |-> r.body,
                    queried |-> r.queried]
    /\ page_views' = Append(page_views, [id |-> Len(page_views) + 1, session_id |-> 0,
                                         product_id |-> <<id>>])
    /\ UNCHANGED <<runner, agentVars, users, products, sessions, purchases, reviews, seedRuns,
                   phase, apiUp>>

RestDetail(endpoint, id) ==
    /\ Idle /\ apiUp
    /\ LET r == DetailResponse(Database, endpoint, id)
       IN  rest' = [endpoint |-> endpoint, id |-> id, filter |-> <<>>, skip |-> <<>>,
                    limit |-> <<>>, status |-> r.status, body |-> r.body,
                    queried |-> r.queried]
    /\ UNCHANGED <<runner, agentVars, dbVars, phase, apiUp>>

\* request parameters offered to the API
IdInputs == -1..(Max(SeedUsers, SeedProducts) + 1)
Optional(S) == {<<>>} \cup {<<v>> : v \in S}
FilterInputs == Optional(-1..(SeedUsers + 1))
SkipInputs == Optional(-1..3)
LimitInputs == Optional({0, 1, 2, 3, MaxLimit, MaxLimit + 1})

\* the API is up and serves a dataset a completed seeding has produced
InitRest ==
    /\ agents = <<>> /\ interaction_history = <<>> /\ last = NoOp /\ openSessions = 0
    /\ \E r \in RngSeeds :
          LET d == SeedData(r)
          IN  /\ users = d.users /\ products = d.products /\ sessions = d.sessions
              /\ page_views = d.page_views /\ purchases = d.purchases /\ reviews = d.reviews
    /\ seedRuns = 1
    /\ phase = "idle"
    /\ apiUp = TRUE
    /\ rest = NoRequest
    /\ runner = NoRunner

NextRest ==
    \/ Idle /\ \E e \in ListEndpoints, f \in FilterInputs, s \in SkipInputs, l \in LimitInputs :
                   RestList(e, IF e \in {"/users", "/products"} THEN <<>> ELSE f, s, l)
    \/ Idle /\ \E e \in DetailEndpoints, i \in IdInputs : RestDetail(e, i)
    \/ Deliver

SpecRest == InitRest /\ [][NextRest]_vars

----------------------------------------------------------------------------
(* Claims on the REST API *)

\* the table a list endpoint reads and the column its filter parameter names
EndpointTable(e) ==
    CASE e = "/users" -> users [] e = "/products" -> products
      [] e = "/sessions" -> sessions [] e = "/purchases" -> purchases
      [] e = "/reviews" -> reviews [] e = "/page-views" -> page_views

FilterColumn(e, row) ==
    CASE e \in {"/sessions", "/purchases"} -> row.user_id
      [] e = "/reviews" -> row.product_id
      [] e = "/page-views" -> row.session_id

\* the rows a request is about: the table, or its rows carrying the supplied id
MatchingRows(e, filter) ==
    LET Carries(row) == FilterColumn(e, row) = filter[1]
    IN  IF filter = <<>> THEN EndpointTable(e) ELSE SelectSeq(EndpointTable(e), Carries)

\* C5: the four detail endpoints answer 404 exactly when no user (product) with the
\* requested id exists, and otherwise 200 with data of that very entity.
C5_DetailFoundIffExists ==
    rest.endpoint \in DetailEndpoints =>
        LET tbl == IF rest.endpoint \in {"/users/{id}", "/users/{id}/behavior"}
                   THEN users ELSE products
            exists == \E i \in DOMAIN tbl : tbl[i].id = rest.id
            key == IF rest.endpoint = "/users/{id}/behavior" THEN rest.body[1].user_id
                   ELSE IF rest.endpoint = "/products/{id}/analytics"
                        THEN rest.body[1].product_id
                   ELSE rest.body[1].id
        IN  /\ (rest.status = 404) <=> ~exists
            /\ exists => rest.status = 200 /\ Len(rest.body) = 1 /\ key = rest.id

\* the last user of the table was asked for and returned
C5_Witness ==
    /\ rest.endpoint = "/users/{id}/behavior" /\ rest.id = SeedUsers
    /\ rest.status = 200 /\ rest.body[1].user_id = SeedUsers

\* C6: a list endpoint rejects skip < 0 and limit outside 1..1000 without querying,
\* and otherwise returns positions skip..skip+limit-1 of the rows the request is
\* about, that is min(limit, max(0, N - skip)) records out of N matching rows.
C6_PaginationWindow ==
    rest.endpoint \in ListEndpoints =>
        LET skip == IF rest.skip = <<>> THEN 0 ELSE rest.skip[1]
            limit == IF rest.limit = <<>> THEN 100 ELSE rest.limit[1]
            rows == MatchingRows(rest.endpoint, rest.filter)
            N == Len(rows)
        IN  IF skip >= 0 /\ limit >= 1 /\ limit <= 1000
            THEN /\ rest.status = 200
                 /\ Len(rest.body) = Min(limit, Max(0, N - skip))
                 /\ \A k \in 1..Len(rest.body) : rest.body[k] = rows[skip + k]
            ELSE rest.status # 200 /\ ~rest.queried

\* C7: with a filter value supplied every returned record carries that id; the
\* records come back unfiltered only when the parameter is omitted.
C7_FilterApplied ==
    (rest.endpoint \in ListEndpoints /\ rest.filter # <<>> /\ rest.status = 200) =>
        \A k \in 1..Len(rest.body) : FilterColumn(rest.endpoint, rest.body[k]) = rest.filter[1]

----------------------------------------------------------------------------
(* multi_agent_mcp_server.py: the multi-agent MCP server *)

MetaTools == <<"query_multi_agent", "get_agent_capabilities", "agent_collaboration">>

\* [f(x) for x in seq]
PrefixAll(prefix, seq) == [i \in DOMAIN seq |-> prefix \o seq[i]]

\* handle_list_tools: the names of the advertised tools, in list order
handle_list_tools ==
    MetaTools \o PrefixAll("behavior_", get_available_tools(BEHAVIOR))
              \o PrefixAll("financial_", get_available_tools(FINANCIAL))

IsDigit(c) == c \in {"0", "1", "2", "3", "4", "5", "6", "7", "8", "9"}

\* Python: s.isdigit()
IsDigitStr(s) == Len(s) > 0 /\ \A i \in 1..Len(s) : IsDigit(SubSeq(s, i, i))

\* Python: float(s) succeeds, for the digit-and-dot strings that reach it
IsFloatStr(s) ==
    LET dots == {i \in 1..Len(s) : SubSeq(s, i, i) = "."}
    IN  Cardinality(dots) <= 1 /\ IsDigitStr(Replace(s, "."))

\* _process_tool_arguments on one string argument: the type it converts to,
\* or the exception float() raises
_process_tool_arguments(value) ==
    IF IsDigitStr(value) THEN [type |-> "int", raised |-> ""]
    ELSE IF IsDigitStr(Replace(value, "."))
         THEN IF IsFloatStr(value) THEN [type |-> "float", raised |-> ""]
              ELSE [type |-> "", raised |-> "could not convert string to float: '" \o value \o "'"]
    ELSE IF Lower(value) \in {"true", "false"} THEN [type |-> "bool", raised |-> ""]
    ELSE [type |-> "str", raised |-> ""]

\* BaseAgent.format_response(result, "summary") -> _create_summary for the payloads
\* of call_tool: an error payload is dumped behind the agent's label
format_response(a, r) ==
    IF r.payload = "error"
    THEN (IF a = BEHAVIOR THEN "User Behavior Agent processed: "
                          ELSE "Financial Reporting Agent processed: ") \o r.text
    ELSE "summary of " \o r.text

\* handle_behavior_agent_tool / handle_financial_agent_tool
handle_agent_tool(a, prefix, name, value, outcome) ==
    LET tool_name == Replace(name, prefix)
        processed == _process_tool_arguments(value)
        r == call_tool(a, tool_name, outcome)
    IN  IF processed.raised # ""
        THEN [text |-> "", ran |-> <<>>, raised |-> processed.raised]
        ELSE [text |-> format_response(a, r), ran |-> r.ran, raised |-> ""]

RECURSIVE Flatten(_)
Flatten(seqs) == IF seqs = <<>> THEN <<>> ELSE seqs[1] \o Flatten(Tail(seqs))

RECURSIVE FormatResults(_)
\* the per-agent sections of _format_multi_agent_response
FormatResults(results) ==
    IF results = <<>> THEN ""
    ELSE results[1].agent_name \o " Analysis: " \o results[1].text \o "; "
         \o FormatResults(Tail(results))

\* a server that hands a query its preferred agent cannot handle to the coordinator
handle_multi_agent_query_mut(args, outs, registry, history) ==
    IF args.query = <<>>
    THEN [text |-> "", ran |-> <<>>, raised |-> "'query'", history |-> history]
    ELSE
    LET query == args.query[1]
        preferred_agent == IF args.preferred_agent = <<>> THEN "auto" ELSE args.preferred_agent[1]
    IN  IF preferred_agent # "auto" /\ preferred_agent \notin AgentIds
        THEN [text |-> "Unknown agent: " \o preferred_agent, ran |-> <<>>,
              raised |-> "", history |-> history]
        ELSE IF preferred_agent # "auto" /\ can_handle_query(preferred_agent, query)
        THEN LET r == process_query(preferred_agent, query, outs[preferred_agent])
             IN  [text |-> "query: " \o query \o ", handling_agent: "
                           \o AgentName(preferred_agent) \o ", result: " \o r.text,
                  ran |-> r.ran, raised |-> "", history |-> history]
        ELSE LET response == coordinator_process_query(registry, history, query, outs)
             IN  [text |-> "Multi-Agent Analysis Results; Query: " \o query
                           \o "; Agents Consulted: " \o ToString(response.agents_consulted)
                           \o "; " \o FormatResults(response.results),
                  ran |-> Flatten([i \in DOMAIN response.results |-> response.results[i].ran]),
                  raised |-> "", history |-> response.history]

\* handle_multi_agent_query; args.query and args.preferred_agent are optional keys
handle_multi_agent_query(args, outs, registry, history) ==
    IF args.query = <<>>
    THEN [text |-> "", ran |-> <<>>, raised |-> "'query'", history |-> history]
    ELSE
    LET query == args.query[1]
        preferred_agent == IF args.preferred_agent = <<>> THEN "auto" ELSE args.preferred_agent[1]
    IN  IF preferred_agent # "auto"
        THEN IF preferred_agent \notin AgentIds
             THEN [text |-> "Unknown agent: " \o preferred_agent, ran |-> <<>>,
                   raised |-> "", history |-> history]
             ELSE IF can_handle_query(preferred_agent, query)
                  THEN LET r == process_query(preferred_agent, query, outs[preferred_agent])
                       IN  [text |-> "query: " \o query \o ", handling_agent: "
                                     \o AgentName(preferred_agent) \o ", result: " \o r.text,
                            ran |-> r.ran, raised |-> "", history |-> history]
                  ELSE [text |-> "query: " \o query \o ", error: Agent "
                                 \o AgentName(preferred_agent) \o " cannot handle this query"
                                 \o ", suggestion: Try using auto routing or a different agent",
                        ran |-> <<>>, raised |-> "", history |-> history]
        ELSE LET response == coordinator_process_query(registry, history, query, outs)
             IN  [text |-> "Multi-Agent Analysis Results; Query: " \o query
                           \o "; Agents Consulted: " \o ToString(response.agents_consulted)
                           \o "; " \o FormatResults(response.results),
                  ran |-> Flatten([i \in DOMAIN response.results |-> response.results[i].ran]),
                  raised |-> "", history |-> response.history]

\* the call_tool sequences of the three collaboration analyses
CollaborationCalls(analysis_type) ==
    CASE analysis_type = "user_financial_correlation" ->
           <<<<BEHAVIOR, "get_user_segmentation">>, <<FINANCIAL, "calculate_customer_ltv">>>>
      [] analysis_type = "behavior_revenue_impact" ->
           <<<<BEHAVIOR, "analyze_engagement_metrics">>, <<FINANCIAL, "generate_revenue_report">>>>
      [] analysis_type = "comprehensive_analysis" ->
           <<<<BEHAVIOR, "get_user_segmentation">>, <<BEHAVIOR, "analyze_session_patterns">>,
             <<FINANCIAL, "generate_financial_summary">>, <<FINANCIAL, "calculate_customer_ltv">>>>
      [] OTHER -> <<>>

\* handle_agent_collaboration
handle_agent_collaboration(args, outs) ==
    IF args.analysis_type = <<>>
    THEN [text |-> "", ran |-> <<>>, raised |-> "'analysis_type'"]
    ELSE
    LET analysis_type == args.analysis_type[1]
        calls == CollaborationCalls(analysis_type)
    IN  IF calls = <<>>
        THEN [text |-> "Unknown collaboration analysis type: " \o analysis_type,
              ran |-> <<>>, raised |-> ""]
        ELSE [text |-> "analysis_type: " \o analysis_type,
              ran |-> Flatten([i \in DOMAIN calls |->
                                  call_tool(calls[i][1], calls[i][2], outs[calls[i][1]]).ran]),
              raised |-> ""]

\* the dispatch of handle_call_tool (the body of its inner try)
dispatch_tool(name, args, outs, registry, history) ==
    IF name = "query_multi_agent" THEN handle_multi_agent_query(args, outs, registry, history)
    ELSE [history |-> history] @@
         (IF name = "get_agent_capabilities"
          THEN [text |-> "total_agents: " \o ToString(Len(registry)), ran |-> <<>>, raised |-> ""]
          ELSE IF name = "agent_collaboration" THEN handle_agent_collaboration(args, outs)
          ELSE IF StartsWith(name, "behavior_")
               THEN handle_agent_tool(BEHAVIOR, "behavior_", name, args.value, outs[BEHAVIOR])
          ELSE IF StartsWith(name, "financial_")
               THEN handle_agent_tool(FINANCIAL, "financial_", name, args.value, outs[FINANCIAL])
          ELSE [text |-> "Unknown tool: " \o name, ran |-> <<>>, raised |-> ""])

\* the frame of handle_call_tool around the outcome r of the dispatch:
\* db = SessionLocal(); try: dispatch; finally: db.close(); an exception of the
\* dispatch becomes the text "Error: ..."
try_finally_close(r) ==
    [text |-> IF r.raised # "" THEN "Error: " \o r.raised ELSE r.text,
     ran |-> r.ran, raised |-> r.raised, history |-> r.history,
     opened |-> 1, closed |-> 1]

\* the frame with db.close() as the last statement of the try block
try_then_close(r) ==
    [text |-> IF r.raised # "" THEN "Error: " \o r.raised ELSE r.text,
     ran |-> r.ran, raised |-> r.raised, history |-> r.history,
     opened |-> 1, closed |-> IF r.raised # "" THEN 0 ELSE 1]

\* handle_call_tool with the session closed after the dispatch instead of in finally
handle_call_tool_mut(name, args, outs, registry, history) ==
    try_then_close(dispatch_tool(name, args, outs, registry, history))

\* handle_call_tool
handle_call_tool(name, args, outs, registry, history) ==
    try_finally_close(dispatch_tool(name, args, outs, registry, history))

----------------------------------------------------------------------------
(* mcp_server.py: the single-agent MCP server *)

\* a tool method's frame: db = SessionLocal(); try: body; finally: db.close()
InSession(body) == body @@ [opened |-> 1, closed |-> 1, returned |-> "text"]

Raised(msg) == [text |-> "", raised |-> msg]
Answer(txt) == [text |-> txt, raised |-> ""]

\* get_user_info: lookup by user_id when the key is given (email lookups find nobody here)
mcp_get_user_info(db, args, outcome) ==
    InSession(
        IF outcome # "ok" THEN Raised(outcome)
        ELSE LET user == IF args.user_id # <<>> THEN crud_get_user(db, args.user_id[1]) ELSE <<>>
             IN  IF user = <<>> THEN Answer("User not found")
                 ELSE Answer("id: " \o ToString(user[1].id) \o ", email: " \o user[1].email))

mcp_get_user_behavior_summary(db, args, outcome) ==
    InSession(
        IF args.user_id = <<>> THEN Raised("'user_id'")
        ELSE IF outcome # "ok" THEN Raised(outcome)
        ELSE LET summary == crud_get_user_behavior_summary(db, args.user_id[1])
             IN  IF summary = <<>> THEN Answer("User not found")
                 ELSE Answer("user: " \o ToString(summary[1].user_id) \o ", total_sessions: "
                             \o ToString(summary[1].total_sessions)))

mcp_search_products(db, args, outcome) ==
    InSession(
        IF outcome # "ok" THEN Raised(outcome)
        ELSE Answer("products: " \o ToString(Len(OffsetLimit(db.products, 0, 10)))))

mcp_get_product_analytics(db, args, outcome) ==
    InSession(
        IF args.product_id = <<>> THEN Raised("'product_id'")
        ELSE IF outcome # "ok" THEN Raised(outcome)
        ELSE LET analytics == crud_get_product_analytics(db, args.product_id[1])
             IN  IF analytics = <<>> THEN Answer("Product not found")
                 ELSE Answer("product: " \o ToString(analytics[1].product_id) \o ", total_views: "
                             \o ToString(analytics[1].total_views)))

mcp_get_top_products(db, args, outcome) ==
    InSession(
        IF outcome # "ok" THEN Raised(outcome)
        ELSE Answer("top products by " \o args.metric \o ": "
                    \o ToString(Len(OffsetLimit(db.products, 0, 10)))))

\* analyze_user_sessions and get_purchase_patterns: the module imports datetime but
\* not timedelta (main() imports it locally), so computing cutoff_date raises NameError
mcp_analyze_user_sessions(db, args, outcome) ==
    InSession(Raised("name 'timedelta' is not defined"))

mcp_get_purchase_patterns(db, args, outcome) ==
    InSession(Raised("name 'timedelta' is not defined"))

\* query_database: opens no session itself, delegates to the other tool methods
mcp_query_database(db, args, outcome) ==
    IF args.query_description = <<>>
    THEN Raised("'query_description'") @@ [opened |-> 0, closed |-> 0, returned |-> "text"]
    ELSE
    LET query_description == Lower(args.query_description[1])
        user_match == SearchUserId(query_description)
        \* an exception below is caught by query_database's own try/except
        Caught(r) == IF r.raised # ""
                     THEN [r EXCEPT !.text = "Error processing query: " \o r.raised, !.raised = ""]
                     ELSE r
    IN  IF Contains(query_description, "user") /\ Contains(query_description, "behavior")
        THEN IF user_match # <<>>
             THEN Caught(mcp_get_user_behavior_summary(db, [args EXCEPT !.user_id = user_match], outcome))
             ELSE \* the branch ends without a return statement
                  [text |-> "", raised |-> "", opened |-> 0, closed |-> 0, returned |-> "none"]
        ELSE IF Contains(query_description, "top") /\ Contains(query_description, "product")
        THEN LET metric == IF Contains(query_description, "view") THEN "views"
                           ELSE IF Contains(query_description, "purchase") THEN "purchases"
                           ELSE IF Contains(query_description, "rating") THEN "rating"
                           ELSE "revenue"
             IN  Caught(mcp_get_top_products(db, [args EXCEPT !.metric = metric], outcome))
        ELSE IF Contains(query_description, "search") /\ Contains(query_description, "product")
        THEN Caught(mcp_search_products(db, args, outcome))
        ELSE [text |-> "I can help you query user behavior, product analytics, purchase patterns, and session data. Please be more specific about what you'd like to know.",
              raised |-> "", opened |-> 0, closed |-> 0, returned |-> "text"]

\* except Exception as e: the answer is the text "Error: ..."
ErrorText(r) == IF r.raised # "" THEN [r EXCEPT !.text = "Error: " \o r.raised] ELSE r

McpToolNames ==
    {"get_user_info", "get_user_behavior_summary", "search_products", "get_product_analytics",
     "get_top_products", "analyze_user_sessions", "get_purchase_patterns", "query_database"}

\* handle_call_tool of the single-agent server
mcp_handle_call_tool(db, name, args, outcome) ==
    LET r == CASE name = "get_user_info" -> mcp_get_user_info(db, args, outcome)
               [] name = "get_user_behavior_summary" -> mcp_get_user_behavior_summary(db, args, outcome)
               [] name = "search_products" -> mcp_search_products(db, args, outcome)
               [] name = "get_product_analytics" -> mcp_get_product_analytics(db, args, outcome)
               [] name = "get_top_products" -> mcp_get_top_products(db, args, outcome)
               [] name = "analyze_user_sessions" -> mcp_analyze_user_sessions(db, args, outcome)
               [] name = "get_purchase_patterns" -> mcp_get_purchase_patterns(db, args, outcome)
               [] name = "query_database" -> mcp_query_database(db, args, outcome)
               [] OTHER -> Raised("Unknown tool: " \o name)
                           @@ [opened |-> 0, closed |-> 0, returned |-> "text"]
    IN  ErrorText(r)

----------------------------------------------------------------------------
(* The two MCP servers taking tool calls over a seeded dataset *)

\* the arguments dict of a tool call: an absent key is <<>>
NoArgs ==
    [query |-> <<>>, preferred_agent |-> <<>>, analysis_type |-> <<>>, value |-> "",
     user_id |-> <<>>, product_id |-> <<>>, query_description |-> <<>>, metric |-> "revenue"]

ServerQueries == {"user engagement", "revenue report", "user profit", "show", "user forecast"}
PreferredAgents == {"auto", BEHAVIOR, FINANCIAL, "sales_agent"}
AnalysisTypes ==
    {"user_financial_correlation", "behavior_revenue_impact", "comprehensive_analysis", "swot"}
ArgValues == {"30", "1.5", "1.2.3", "true", "mobile"}

\* tool names a client can send: the advertised ones and some that are not
CallNames ==
    Range(handle_list_tools) \cup {"behavior_export_csv", "financial_audit", "list_users"}

\* the argument dicts offered with a tool name
ArgsFor(name) ==
    IF name = "query_multi_agent"
    THEN {[NoArgs EXCEPT !.query = q, !.preferred_agent = p] :
              q \in Optional(ServerQueries), p \in Optional(PreferredAgents)}
    ELSE IF name = "agent_collaboration"
    THEN {[NoArgs EXCEPT !.analysis_type = t] : t \in Optional(AnalysisTypes)}
    ELSE IF name = "get_agent_capabilities" THEN {NoArgs}
    ELSE {[NoArgs EXCEPT !.value = v] : v \in ArgValues}

McpDescriptions ==
    {"user behavior", "behavior of user 1", "User 9 Behavior", "user  2 behavior",
     "top product", "top product views", "top product purchase", "top product rating",
     "search product", "hello"}

McpArgsFor(name) ==
    IF name \in {"get_user_info", "get_user_behavior_summary"}
    THEN {[NoArgs EXCEPT !.user_id = u] : u \in Optional(IdInputs)}
    ELSE IF name = "get_product_analytics"
    THEN {[NoArgs EXCEPT !.product_id = u] : u \in Optional(IdInputs)}
    ELSE IF name = "get_top_products"
    THEN {[NoArgs EXCEPT !.metric = m] : m \in {"revenue", "views", "purchases", "rating"}}
    ELSE IF name = "query_database"
    THEN {[NoArgs EXCEPT !.query_description = d] : d \in Optional(McpDescriptions)}
    ELSE {NoArgs}

McpCallNames == McpToolNames \cup {"delete_user"}

\* list_tools of the multi-agent server
ListTools ==
    /\ Idle
    /\ last' = [NoOp EXCEPT !.op = "list_tools", !.listed = handle_list_tools]
    /\ UNCHANGED <<runner, agents, interaction_history, openSessions, dbVars, phase, apiUp, rest>>

\* a tool call to the multi-agent server
\* the answer r of the multi-agent server reaches the caller
Answered(name, args, r) ==
    /\ Len(r.history) <= MaxHistory
    /\ last' = [NoOp EXCEPT !.op = "handle_call_tool", !.name = name, !.args = args,
                            !.ran = r.ran, !.text = r.text, !.raised = r.raised,
                            !.opened = r.opened, !.closed = r.closed,
                            !.returned = "text"]
    /\ interaction_history' = r.history
    /\ openSessions' = openSessions + r.opened - r.closed

HandleCallTool(name, args, outs) ==
    /\ Idle /\ openSessions < MaxOpen
    /\ Answered(name, args, handle_call_tool(name, args, outs, agents, interaction_history))
    /\ UNCHANGED <<runner, agents, dbVars, phase, apiUp, rest>>

\* a tool call to the single-agent server
\* the answer r of the single-agent server reaches the caller
McpAnswered(name, args, outcome, r) ==
    /\ last' = [NoOp EXCEPT !.op = "mcp_call_tool", !.name = name, !.args = args,
                            !.outcome = outcome, !.text = r.text, !.raised = r.raised,
                            !.opened = r.opened, !.closed = r.closed,
                            !.returned = r.returned]
    /\ openSessions' = openSessions + r.opened - r.closed

McpCallTool(name, args, outcome) ==
    /\ Idle /\ openSessions < MaxOpen
    /\ McpAnswered(name, args, outcome, mcp_handle_call_tool(Database, name, args, outcome))
    /\ UNCHANGED <<runner, agents, interaction_history, dbVars, phase, apiUp, rest>>

\* both servers constructed (the multi-agent one registers its two agents) over a
\* dataset a completed seeding has produced
InitServers ==
    /\ agents = register_agent(register_agent(<<>>, BEHAVIOR), FINANCIAL)
    /\ interaction_history = <<>> /\ last = NoOp /\ openSessions = 0
    /\ \E r \in RngSeeds :
          LET d == SeedData(r)
          IN  /\ users = d.users /\ products = d.products /\ sessions = d.sessions
              /\ page_views = d.page_views /\ purchases = d.purchases /\ reviews = d.reviews
    /\ seedRuns = 1
    /\ phase = "idle"
    /\ apiUp = FALSE
    /\ rest = NoRequest
    /\ runner = NoRunner

NextServers ==
    \/ Idle /\ ListTools
    \/ Idle /\ \E n \in CallNames : \E a \in ArgsFor(n), outs \in [AgentIds -> Outcomes] :
                   HandleCallTool(n, a, outs)
    \/ Idle /\ \E n \in McpCallNames : \E a \in McpArgsFor(n), o \in Outcomes :
                   McpCallTool(n, a, o)
    \/ Deliver

SpecServers == InitServers /\ [][NextServers]_vars

----------------------------------------------------------------------------
(* Claims on the MCP servers *)

AgentPrefix(a) == IF a = BEHAVIOR THEN "behavior_" ELSE "financial_"

\* C3: every tool name the multi-agent server advertises for an agent's tool t,
\* called with arguments the server can convert, invokes exactly that tool t
C3_AdvertisedToolsCallable ==
    \A a \in AgentIds : \A i \in DOMAIN get_available_tools(a) :
        LET t == get_available_tools(a)[i]
        IN  (/\ last.op = "handle_call_tool"
             /\ last.name = AgentPrefix(a) \o t
             /\ _process_tool_arguments(last.args.value).raised = "")
            => last.ran = <<tools(a)[t]>>

----------------------------------------------------------------------------
(* seed_data.py create_sample_data, run_all.py DemoRunner and the startup of   *)
(* the API: the life of the dataset                                            *)

\* the commits of create_sample_data, in order: the deletes, then one per table
SeedCommitPoints == <<"clear", "users", "products", "sessions", "page_views", "purchases", "reviews">>

\* create_sample_data on database db from generator state r0, when `commits` of its
\* commits succeed: an exception after that is caught, the open transaction rolled
\* back and the function returns normally
create_sample_data(db, r0, commits) ==
    LET d == SeedData(r0)
        Committed(n, rows) == IF commits >= n THEN rows ELSE <<>>
    IN  IF commits = 0 THEN db
        ELSE [users |-> Committed(2, d.users), products |-> Committed(3, d.products),
              sessions |-> Committed(4, d.sessions), page_views |-> Committed(5, d.page_views),
              purchases |-> Committed(6, d.purchases), reviews |-> Committed(7, d.reviews)]

\* the number of commits a run of the seed gets through
CommitInputs == {0, 1, 3, Len(SeedCommitPoints)}

\* the six tables after a run of create_sample_data
Reseed(r0, commits) ==
    LET d == create_sample_data(Database, r0, commits)
    IN  /\ users' = d.users /\ products' = d.products /\ sessions' = d.sessions
        /\ page_views' = d.page_views /\ purchases' = d.purchases /\ reviews' = d.reviews
        /\ seedRuns' = IF commits = Len(SeedCommitPoints) THEN seedRuns + 1 ELSE seedRuns

\* DemoRunner.setup_environment: exits when the API key is missing or pip fails
SetupEnvironment(ok) ==
    /\ Idle /\ phase = "idle"
    /\ phase' = IF ok THEN "environment" ELSE "stopped"
    /\ UNCHANGED <<runner, agentVars, dbVars, apiUp, rest>>

\* DemoRunner.setup_database: runs the seed; the seed reports its own errors and
\* returns, so the runner goes on either way
SetupDatabase(r0, commits) ==
    /\ Idle /\ phase = "environment"
    /\ seedRuns < MaxSeedRuns
    /\ Reseed(r0, commits)
    /\ phase' = "database"
    /\ UNCHANGED <<runner, agentVars, apiUp, rest>>

\* DemoRunner.start_api_server: launches uvicorn main:app --reload
StartApiServer ==
    /\ Idle /\ phase = "database"
    /\ phase' = "api"
    /\ UNCHANGED <<runner, agentVars, dbVars, apiUp, rest>>

\* main.py startup_event, run by the launched server before it serves requests:
\* create_database(), then create_sample_data()
ApiStartup(r0, commits) ==
    /\ Idle /\ phase \in {"api", "frontend", "running"} /\ ~apiUp
    /\ seedRuns < MaxSeedRuns
    /\ Reseed(r0, commits)
    /\ apiUp' = TRUE
    /\ UNCHANGED <<runner, agentVars, phase, rest>>

\* uvicorn --reload restarts the application when a source file changes
ApiReload ==
    /\ Idle /\ phase \in {"api", "frontend", "running"} /\ apiUp
    /\ apiUp' = FALSE
    /\ UNCHANGED <<runner, agentVars, dbVars, phase, rest>>

\* DemoRunner.start_frontend
StartFrontend ==
    /\ Idle /\ phase = "api"
    /\ phase' = "frontend"
    /\ UNCHANGED <<runner, agentVars, dbVars, apiUp, rest>>

\* DemoRunner.wait_for_services and open_browsers: the runner goes on whether or
\* not the API answered its health check
WaitForServices ==
    /\ Idle /\ phase = "frontend"
    /\ phase' = "running"
    /\ UNCHANGED <<runner, agentVars, dbVars, apiUp, rest>>

\* DemoRunner.cleanup on interrupt: terminates the launched processes
Cleanup ==
    /\ Idle /\ phase \in {"api", "frontend", "running"}
    /\ phase' = "stopped"
    /\ apiUp' = FALSE
    /\ UNCHANGED <<runner, agentVars, dbVars, rest>>

\* the multi-agent server is constructed with its two agents; no table exists yet
\* and the runner has not started
InitSystem ==
    /\ agents = register_agent(register_agent(<<>>, BEHAVIOR), FINANCIAL)
    /\ interaction_history = <<>> /\ last = NoOp /\ openSessions = 0
    /\ users = <<>> /\ products = <<>> /\ sessions = <<>>
    /\ page_views = <<>> /\ purchases = <<>> /\ reviews = <<>>
    /\ seedRuns = 0
    /\ phase = "idle"
    /\ apiUp = FALSE
    /\ rest = NoRequest
    /\ runner = NoRunner

\* the requests and calls offered while the system runs
SystemQueries == {"user engagement", "revenue report"}
SystemCallNames == {"query_multi_agent", "behavior_get_user_segmentation", "financial_get_financial_kpis"}
SystemMcpNames == {"get_user_info", "get_top_products", "query_database"}
SystemArgs(name) ==
    IF name = "query_multi_agent"
    THEN {[NoArgs EXCEPT !.query = <<q>>] : q \in SystemQueries}
    ELSE IF name = "query_database"
    THEN {[NoArgs EXCEPT !.query_description = <<d>>] : d \in {"behavior of user 1", "top product"}}
    ELSE IF name = "get_user_info"
    THEN {[NoArgs EXCEPT !.user_id = <<u>>] : u \in {1, SeedUsers + 1}}
    ELSE {[NoArgs EXCEPT !.value = "30"]}

Next ==
    \/ Idle /\ \E ok \in BOOLEAN : SetupEnvironment(ok)
    \/ Idle /\ \E r \in RngSeeds, c \in CommitInputs : SetupDatabase(r, c)
    \/ Idle /\ StartApiServer
    \/ Idle /\ \E r \in RngSeeds, c \in CommitInputs : ApiStartup(r, c)
    \/ Idle /\ ApiReload
    \/ Idle /\ StartFrontend
    \/ Idle /\ WaitForServices
    \/ Idle /\ Cleanup
    \/ Idle /\ \E e \in {"/users", "/sessions"}, f \in {<<>>, <<1>>} :
                   RestList(e, IF e = "/users" THEN <<>> ELSE f, <<>>, <<1>>)
    \/ Idle /\ \E e \in {"/users/{id}", "/products/{id}/analytics"}, i \in {1, SeedUsers + 1} :
                   RestDetail(e, i)
    \/ Idle /\ \E a \in AgentIds, q \in SystemQueries, o \in {"ok", "division by zero"} :
                   AgentProcessQuery(a, q, o)
    \/ Idle /\ \E a \in AgentIds, o \in {"ok", "division by zero"} :
                   AgentCallTool(a, "get_user_segmentation", o)
    \/ Idle /\ \E n \in SystemCallNames : \E a \in SystemArgs(n) :
                   HandleCallTool(n, a, [x \in AgentIds |-> "ok"])
    \/ Idle /\ \E n \in SystemMcpNames : \E a \in SystemArgs(n), o \in {"ok", "no such table: purchases"} :
                   McpCallTool(n, a, o)
    \/ Deliver

Spec == InitSystem /\ [][Next]_vars

----------------------------------------------------------------------------
(* Claims on the dataset *)

\* a step that is a query: a REST request, an agent call or an MCP tool call
QueryStep ==
    \/ last' # last /\ last'.op \in {"process_query", "call_tool", "handle_call_tool", "mcp_call_tool"}
    \/ rest' # rest /\ rest'.endpoint # "none"

\* C9: once a run of the seed has completed, no later step deletes or rewrites
\* rows of any table
C9_CreatedOnceThenReadOnly == [][seedRuns >= 1 => tables' = tables]_vars

\* C10: no query step changes any of the six tables
C10_QueriesLeaveTablesUnchanged == [][QueryStep => tables' = tables]_vars

\* a tool call has been answered from the rows of a seeded dataset
C10_Witness ==
    /\ seedRuns >= 1 /\ purchases # <<>>
    /\ last.op = "mcp_call_tool" /\ StartsWith(last.text, "id: ")

----------------------------------------------------------------------------
(* The aggregate functions of the agents.  Money is in cents; every divisor a  *)
(* function divides by is recorded in hundredths (a count n as 100 * n), in    *)
(* the order of the divisions, so that max(x, 1) reads Max(x, 100).  A query   *)
(* arrives within a day of the seeding, so a row dated days_ago days before    *)
(* the seeding lies in the last time_period days iff days_ago < time_period.   *)

\* rows with cutoff(hi) <= date < cutoff(lo)
Dated(rows, lo, hi) ==
    LET In(r) == r.days_ago >= lo /\ r.days_ago < hi
    IN  SelectSeq(rows, In)

\* rows dated on or after the cutoff of time_period days ago
Since(rows, time_period) == Dated(rows, 0, time_period)

\* len(set(row.user_id for row in rows)) / .distinct().count()
DistinctUsers(rows) == Cardinality({rows[i].user_id : i \in DOMAIN rows})

\* total_revenue * cost_of_goods_sold_percentage (0.60), in cents
CostOfGoodsSold(total_revenue) == (total_revenue * 60) \div 100

\* FinancialReportingAgent._generate_revenue_report
generate_revenue_report(db, time_period) ==
    LET orders == Since(db.purchases, time_period)
        total_orders == Len(orders)
        previous_revenue == SumAmount(Dated(db.purchases, time_period, 2 * time_period))
    IN  [error |-> "", total |-> SumAmount(orders),
         divisors |-> <<100 * Max(total_orders, 1), Max(previous_revenue, 100)>>]

\* FinancialReportingAgent._analyze_profit_margins
analyze_profit_margins(db, time_period) ==
    LET total_revenue == SumAmount(Since(db.purchases, time_period))
    IN  [error |-> "", total |-> total_revenue,
         divisors |-> <<Max(total_revenue, 100), Max(total_revenue, 100)>>]

\* _get_financial_kpis with the sessions ratio divided by the bare order count
get_financial_kpis_mut(db, time_period) ==
    LET orders == Since(db.purchases, time_period)
        total_revenue == SumAmount(orders)
        total_orders == Len(orders)
        unique_customers == DistinctUsers(orders)
        total_customers == Len(db.users)
        total_sessions == Len(Since(db.sessions, time_period))
    IN  [error |-> "", total |-> total_revenue,
         divisors |-> <<100 * Max(total_orders, 1), 100 * Max(unique_customers, 1)>>
                      \o (IF total_sessions > 0 THEN <<100 * Max(total_sessions, 1)>> ELSE <<>>)
                      \o <<100 * Max(total_customers, 1),
                           Max(CostOfGoodsSold(total_revenue), 100),
                           Max(total_revenue, 100),
                           100 * total_orders>>]

\* FinancialReportingAgent._get_financial_kpis
get_financial_kpis(db, time_period) ==
    LET orders == Since(db.purchases, time_period)
        total_revenue == SumAmount(orders)
        total_orders == Len(orders)
        unique_customers == DistinctUsers(orders)
        total_customers == Len(db.users)
        total_sessions == Len(Since(db.sessions, time_period))
    IN  [error |-> "", total |-> total_revenue,
         divisors |-> <<100 * Max(total_orders, 1), 100 * Max(unique_customers, 1)>>
                      \o (IF total_sessions > 0 THEN <<100 * Max(total_sessions, 1)>> ELSE <<>>)
                      \o <<100 * Max(total_customers, 1),
                           Max(CostOfGoodsSold(total_revenue), 100),
                           Max(total_revenue, 100),
                           100 * Max(total_orders, 1)>>]

\* the three divisions _analyze_payment_methods makes for one payment method
PaymentDivisors(orders, method) ==
    LET Paid(r) == r.payment_method = method
        order_count == Len(SelectSeq(orders, Paid))
    IN  IF order_count = 0 THEN <<>>
        ELSE <<100 * Max(order_count, 1), Max(SumAmount(orders), 100),
               100 * Max(Len(orders), 1)>>

\* FinancialReportingAgent._analyze_payment_methods
analyze_payment_methods(db, time_period) ==
    LET orders == Since(db.purchases, time_period)
    IN  [error |-> "", total |-> SumAmount(orders),
         divisors |-> Flatten([m \in DOMAIN payment_methods |->
                                  PaymentDivisors(orders, payment_methods[m])])]

\* FinancialReportingAgent._analyze_discount_impact
analyze_discount_impact(db, time_period) ==
    LET orders == Since(db.purchases, time_period)
        Discounted(r) == r.discount_applied > 0
        FullPrice(r) == r.discount_applied = 0
        discounted_purchases == SelectSeq(orders, Discounted)
        full_price_purchases == SelectSeq(orders, FullPrice)
    IN  IF orders = <<>>
        THEN [error |-> "No purchase data available for analysis", total |-> 0,
              divisors |-> <<>>]
        ELSE [error |-> "", total |-> SumAmount(orders),
              divisors |-> <<100 * Len(orders), 100 * Max(Len(discounted_purchases), 1),
                             Max(SumAmount(discounted_purchases)
                                 + SumAmount(full_price_purchases), 100)>>]

\* UserBehaviorAgent._analyze_engagement_metrics
analyze_engagement_metrics(db, time_period) ==
    LET total_users == Len(db.users)
        active_users == DistinctUsers(Since(db.sessions, time_period))
        total_sessions == Len(Since(db.sessions, time_period))
    IN  [error |-> "", total |-> total_sessions,
         divisors |-> <<100 * Max(total_users, 1), 100 * Max(active_users, 1),
                        100 * Max(total_sessions, 1), 100 * Max(active_users, 1)>>]

\* UserBehaviorAgent._analyze_session_patterns; device_filter is <<>> or <<device>>
analyze_session_patterns(db, time_period, device_filter) ==
    LET OnDevice(r) == r.device_type = device_filter[1]
        recent == Since(db.sessions, time_period)
        visits == IF device_filter # <<>> THEN SelectSeq(recent, OnDevice) ELSE recent
    IN  [error |-> "", total |-> Len(visits),
         divisors |-> <<100 * Max(Len(visits), 1)>>]

\* a ratio of two integers and the float operations the LTV formula uses
Frac(n, d) == [num |-> n, den |-> d]
FracMul(a, b) == Frac(a.num * b.num, a.den * b.den)
FracDiv(a, b) == Frac(a.num * b.den, a.den * b.num)
FracMax(a, b) == IF a.num * b.den >= b.num * a.den THEN a ELSE b

\* round(x, 2) of an amount x = f cents: the nearest whole number of cents
RoundCents(f) ==
    LET q == f.num \div f.den
        twice == 2 * (f.num % f.den)
    IN  IF twice > f.den \/ (twice = f.den /\ q % 2 = 1) THEN q + 1 ELSE q

\* the row with the earliest (latest) purchase_date: a purchase is dated utcnow()
\* minus days_ago days, and utcnow() advances from one insert to the next
Earlier(a, b) == a.days_ago > b.days_ago \/ (a.days_ago = b.days_ago /\ a.id <= b.id)
FirstPurchase(rows) == CHOOSE a \in Range(rows) : \A b \in Range(rows) : Earlier(a, b)
LastPurchase(rows) == CHOOSE b \in Range(rows) : \A a \in Range(rows) : Earlier(a, b)

\* (last_purchase - first_purchase).days: whole days, rounded down
DaysBetween(first_purchase, last_purchase) ==
    IF last_purchase.id >= first_purchase.id
    THEN first_purchase.days_ago - last_purchase.days_ago
    ELSE first_purchase.days_ago - last_purchase.days_ago - 1

\* the ltv_data entry of one user with purchases `bought`, lifespan computed without the + 1
customer_ltv_mut(user, bought) ==
    LET total_spent == SumAmount(bought)
        purchase_count == Len(bought)
        lifespan_days == DaysBetween(FirstPurchase(bought), LastPurchase(bought))
        avg_order_value == Frac(total_spent, purchase_count)
        months == Frac(lifespan_days, 30)
        purchase_frequency == FracDiv(Frac(purchase_count, 1), FracMax(months, Frac(1, 1)))
        ltv == FracMul(FracMul(avg_order_value, purchase_frequency), months)
    IN  [user_id |-> user.id, total_spent |-> total_spent, purchase_count |-> purchase_count,
         customer_lifespan_days |-> lifespan_days,
         estimated_ltv |-> RoundCents(ltv),
         divisors |-> <<100 * purchase_count, Max((100 * lifespan_days) \div 30, 100)>>]

\* the ltv_data entry of one user with purchases `bought` (the body of the loop
\* of _calculate_customer_ltv)
customer_ltv(user, bought) ==
    LET total_spent == SumAmount(bought)
        purchase_count == Len(bought)
        lifespan_days == DaysBetween(FirstPurchase(bought), LastPurchase(bought)) + 1
        avg_order_value == Frac(total_spent, purchase_count)
        months == Frac(lifespan_days, 30)
        purchase_frequency == FracDiv(Frac(purchase_count, 1), FracMax(months, Frac(1, 1)))
        ltv == FracMul(FracMul(avg_order_value, purchase_frequency), months)
    IN  [user_id |-> user.id, total_spent |-> total_spent, purchase_count |-> purchase_count,
         customer_lifespan_days |-> lifespan_days,
         estimated_ltv |-> RoundCents(ltv),
         divisors |-> <<100 * purchase_count, Max((100 * lifespan_days) \div 30, 100)>>]

RECURSIVE LtvData(_, _)
\* for user in users: if purchases: ltv_data.append(...)
LtvData(db, i) ==
    IF i > Len(db.users) THEN <<>>
    ELSE LET OfUser(r) == r.user_id = db.users[i].id
             bought == SelectSeq(db.purchases, OfUser)
         IN  (IF bought # <<>> THEN <<customer_ltv(db.users[i], bought)>> ELSE <<>>)
             \o LtvData(db, i + 1)

\* FinancialReportingAgent._calculate_customer_ltv
calculate_customer_ltv(db) ==
    LET ltv_data == LtvData(db, 1)
    IN  [error |-> "", total |-> Len(ltv_data), ltv_data |-> ltv_data,
         divisors |-> Flatten([i \in DOMAIN ltv_data |-> ltv_data[i].divisors])
                      \o (IF ltv_data # <<>> THEN <<100 * Len(ltv_data)>> ELSE <<>>)]

----------------------------------------------------------------------------
(* crud.py get_top_products_by_revenue and its endpoint *)

DefaultTopLimit == 10
MinTopLimit == 1
MaxTopLimit == 50

RECURSIVE InsertByRevenue_mut(_, _)
\* an insertion that puts a record before the records of equal revenue
InsertByRevenue_mut(x, sorted) ==
    IF sorted = <<>> THEN <<x>>
    ELSE IF sorted[1].total_revenue > x.total_revenue
         THEN <<sorted[1]>> \o InsertByRevenue_mut(x, Tail(sorted))
         ELSE <<x>> \o sorted

RECURSIVE InsertByRevenue(_, _)
\* sorted(..., key=total_revenue, reverse=True) is stable: a record goes behind
\* every record of greater or equal revenue that came before it
InsertByRevenue(x, sorted) ==
    IF sorted = <<>> THEN <<x>>
    ELSE IF sorted[1].total_revenue >= x.total_revenue
         THEN <<sorted[1]>> \o InsertByRevenue(x, Tail(sorted))
         ELSE <<x>> \o sorted

RECURSIVE SortedByRevenue(_)
SortedByRevenue(records) ==
    IF records = <<>> THEN <<>>
    ELSE InsertByRevenue(records[Len(records)],
                         SortedByRevenue(SubSeq(records, 1, Len(records) - 1)))

\* crud.get_top_products_by_revenue
crud_get_top_products_by_revenue(db, limit) ==
    LET analytics == Flatten([i \in DOMAIN db.products |->
                                 crud_get_product_analytics(db, db.products[i].id)])
    IN  SubSeq(SortedByRevenue(analytics), 1, Min(limit, Len(analytics)))

\* GET /analytics/top-products behind the validation of limit
TopProductsResponse(db, limitOpt) ==
    LET limit == IF limitOpt = <<>> THEN DefaultTopLimit ELSE limitOpt[1]
    IN  IF ~(limit >= MinTopLimit /\ limit <= MaxTopLimit)
        THEN [status |-> 422, body |-> <<>>, queried |-> FALSE]
        ELSE [status |-> 200, body |-> crud_get_top_products_by_revenue(db, limit),
              queried |-> TRUE]

RestTopProducts(limit) ==
    /\ Idle /\ apiUp
    /\ rest' = TopProductsResponse(Database, limit)
                  @@ [endpoint |-> "/analytics/top-products", id |-> 0, filter |-> <<>>,
                      skip |-> <<>>, limit |-> limit]
    /\ UNCHANGED <<runner, agentVars, dbVars, phase, apiUp>>

----------------------------------------------------------------------------
(* The aggregate tools called through BaseAgent.call_tool over datasets in     *)
(* every stage of the seeding                                                  *)

AnalysisTools ==
    {"generate_revenue_report", "analyze_profit_margins", "get_financial_kpis",
     "analyze_payment_methods", "calculate_customer_ltv", "analyze_discount_impact",
     "analyze_engagement_metrics", "analyze_session_patterns"}

\* the method self.tools[tool_name] run on the database
RunTool(tool_name, db, time_period, device_filter) ==
    CASE tool_name = "generate_revenue_report" -> generate_revenue_report(db, time_period)
      [] tool_name = "analyze_profit_margins" -> analyze_profit_margins(db, time_period)
      [] tool_name = "get_financial_kpis" -> get_financial_kpis(db, time_period)
      [] tool_name = "analyze_payment_methods" -> analyze_payment_methods(db, time_period)
      [] tool_name = "calculate_customer_ltv" -> calculate_customer_ltv(db)
      [] tool_name = "analyze_discount_impact" -> analyze_discount_impact(db, time_period)
      [] tool_name = "analyze_engagement_metrics" -> analyze_engagement_metrics(db, time_period)
      [] tool_name = "analyze_session_patterns" ->
             analyze_session_patterns(db, time_period, device_filter)

\* Python raises ZeroDivisionError at the first division by 0
DividesByZero(divisors) == \E i \in DOMAIN divisors : divisors[i] = 0

\* BaseAgent.call_tool around the result r of the tool: an exception becomes an
\* error payload
ToolAnswered(a, tool_name, r) ==
    last' = [NoOp EXCEPT !.op = "analysis", !.agent = a, !.name = tool_name,
                         !.ran = <<tools(a)[tool_name]>>,
                         !.divisors = r.divisors, !.result = <<r>>,
                         !.payload = IF DividesByZero(r.divisors) \/ r.error # ""
                                     THEN "error" ELSE "result",
                         !.raised = IF DividesByZero(r.divisors) THEN "division by zero" ELSE "",
                         !.text = IF DividesByZero(r.divisors)
                                  THEN "Error calling tool " \o tool_name \o ": division by zero"
                                  ELSE r.error]

RunAnalysis(a, tool_name, time_period, device_filter) ==
    /\ Idle
    /\ tool_name \in DOMAIN tools(a)
    /\ ToolAnswered(a, tool_name, RunTool(tool_name, Database, time_period, device_filter))
    /\ UNCHANGED <<runner, agents, interaction_history, openSessions, dbVars, phase, apiUp, rest>>

TimePeriods == {0, 1, 7, 30, 60}
DeviceFilters == {<<>>, <<"mobile">>, <<"watch">>}
TopLimits == Optional({0, 1, 2, 3, MaxTopLimit, MaxTopLimit + 1})

\* generator states of the seed: the common ones and two that spread the purchases
\* of a customer over 30 days
AnalyticsSeeds == RngSeeds \cup {75, 123}

\* the API and the agents over a dataset left by a run of the seed that got through
\* at least its first commit
InitAnalytics ==
    /\ agents = register_agent(register_agent(<<>>, BEHAVIOR), FINANCIAL)
    /\ interaction_history = <<>> /\ last = NoOp /\ openSessions = 0
    /\ \E r \in AnalyticsSeeds, c \in 1..Len(SeedCommitPoints) :
          LET d == create_sample_data(Database, r, c)
          IN  /\ users = d.users /\ products = d.products /\ sessions = d.sessions
              /\ page_views = d.page_views /\ purchases = d.purchases /\ reviews = d.reviews
              /\ seedRuns = IF c = Len(SeedCommitPoints) THEN 1 ELSE 0
    /\ phase = "running"
    /\ apiUp = TRUE
    /\ rest = NoRequest
    /\ runner = NoRunner

NextAnalytics ==
    \/ Idle /\ \E a \in AgentIds, t \in AnalysisTools, p \in TimePeriods, d \in DeviceFilters :
                   RunAnalysis(a, t, p, IF t = "analyze_session_patterns" THEN d ELSE <<>>)
    \/ Idle /\ \E l \in TopLimits : RestTopProducts(l)
    \/ Idle /\ \E i \in IdInputs : RestDetail("/products/{id}/analytics", i)
    \/ Deliver

SpecAnalytics == InitAnalytics /\ [][NextAnalytics]_vars

----------------------------------------------------------------------------
(* Claims on the aggregates *)

\* C11: no aggregate divides by zero, whatever the dataset: every divisor of an
\* answered analysis (and of REST product analytics) is at least 1, and the answer
\* is a result or the explicit error payload of an empty period
C11_NoDivisionByZero ==
    /\ last.op = "analysis" =>
          /\ \A i \in DOMAIN last.divisors : last.divisors[i] >= 100
          /\ last.raised = ""
          /\ last.payload = "error" => last.text = "No purchase data available for analysis"
    /\ (rest.endpoint = "/products/{id}/analytics" /\ rest.status = 200) =>
          \A i \in DOMAIN rest.body[1].divisors : rest.body[1].divisors[i] >= 100

\* the KPIs were computed for a period without purchases and sessions
C11_Witness ==
    /\ last.op = "analysis" /\ last.name = "get_financial_kpis"
    /\ users # <<>> /\ last.result[1].total = 0
    /\ last.payload = "result" /\ Len(last.divisors) = 6

\* revenue of a product, summed over the purchases table
ProductRevenue(product_id) ==
    LET OfProduct(r) == r.product_id = product_id
    IN  SumAmount(SelectSeq(purchases, OfProduct))

\* position of a product in the products table
TablePosition(product_id) == CHOOSE k \in DOMAIN products : products[k].id = product_id

\* C12: GET /analytics/top-products with 1 <= limit <= 50 returns exactly
\* min(limit, number of products) records of distinct products, in non-increasing
\* total_revenue, no left-out product has more revenue than a returned one, and
\* records of equal revenue keep the order of the products table
C12_TopProductsByRevenue ==
    (/\ rest.endpoint = "/analytics/top-products" /\ rest.limit # <<>>
     /\ rest.limit[1] >= 1 /\ rest.limit[1] <= 50) =>
        LET body == rest.body
            returned == {body[k].product_id : k \in DOMAIN body}
        IN  /\ rest.status = 200
            /\ Len(body) = Min(rest.limit[1], Len(products))
            /\ Cardinality(returned) = Len(body)
            /\ \A k \in DOMAIN body :
                  body[k].total_revenue = ProductRevenue(body[k].product_id)
            /\ \A k \in 1..(Len(body) - 1) :
                  body[k].total_revenue >= body[k + 1].total_revenue
            /\ \A p \in DOMAIN products : products[p].id \notin returned =>
                  \A k \in DOMAIN body :
                      ProductRevenue(products[p].id) <= body[k].total_revenue
            /\ \A i, j \in DOMAIN body :
                  (i < j /\ body[i].total_revenue = body[j].total_revenue) =>
                      TablePosition(body[i].product_id) < TablePosition(body[j].product_id)

\* two products of equal revenue were returned, behind one of greater revenue or not
C12_Witness ==
    /\ rest.endpoint = "/analytics/top-products" /\ rest.status = 200
    /\ rest.limit = <<2>> /\ Len(rest.body) = 2
    /\ rest.body[1].total_revenue = rest.body[2].total_revenue

\* a limit below the number of products left out the product of smaller revenue
C12_WitnessCut ==
    /\ rest.endpoint = "/analytics/top-products" /\ rest.status = 200
    /\ rest.limit = <<1>> /\ Len(products) = 2
    /\ rest.body[1].product_id = products[2].id
    /\ ProductRevenue(products[1].id) < rest.body[1].total_revenue

\* the purchases of a user, in table order
PurchasesOf(user_id) ==
    LET ByUser(r) == r.user_id = user_id
    IN  SelectSeq(purchases, ByUser)

\* users with at least one purchase, in table order
Customers ==
    LET Bought(u) == PurchasesOf(u.id) # <<>>
    IN  SelectSeq(users, Bought)

C13_WitnessLeftOut ==
    /\ last.op = "analysis" /\ last.name = "calculate_customer_ltv"
    /\ purchases # <<>>
    /\ Len(last.result[1].ltv_data) < Len(users)

----------------------------------------------------------------------------
(* frontend/multi_agent_mcp_client.py: the chat client in front of the          *)
(* generative model                                                             *)

RECURSIVE JoinComma(_)
\* ", ".join(items)
JoinComma(items) ==
    IF Len(items) = 0 THEN ""
    ELSE IF Len(items) = 1 THEN items[1]
    ELSE items[1] \o ", " \o JoinComma(Tail(items))

client_behavior_keywords ==
    <<"user", "customer", "behavior", "session", "engagement", "activity",
      "interaction", "browsing", "journey", "retention", "device", "usage">>

client_financial_keywords ==
    <<"revenue", "profit", "financial", "earnings", "income", "sales",
      "money", "cost", "expense", "margin", "roi", "ltv", "forecast">>

client_collaboration_keywords ==
    <<"comprehensive", "overall", "business", "correlation", "impact",
      "analysis", "summary", "report", "dashboard", "insights">>

\* the keywords of one list found in the query, each tagged with the list's label
Detected(query_lower, keywords, label) ==
    LET In(kw) == Contains(query_lower, kw)
        found == SelectSeq(keywords, In)
    IN  [i \in DOMAIN found |-> label \o ":" \o found[i]]

\* MultiAgentGeminiClient._analyze_query_routing
analyze_query_routing(query_lower) ==
    LET b == Detected(query_lower, client_behavior_keywords, "behavior")
        f == Detected(query_lower, client_financial_keywords, "financial")
        c == Detected(query_lower, client_collaboration_keywords, "collaboration")
        suggested == (IF b # <<>> THEN <<"user_behavior_agent">> ELSE <<>>)
                     \o (IF f # <<>> THEN <<"financial_reporting_agent">> ELSE <<>>)
                     \o (IF c # <<>> THEN <<"multi_agent_collaboration">> ELSE <<>>)
    IN  [detected_keywords |-> b \o f \o c,
         suggested_agents |-> IF suggested = <<>> THEN <<"auto_routing">> ELSE suggested,
         complexity |-> IF Len(suggested) > 1 THEN "high"
                        ELSE IF Len(suggested) = 1 THEN "medium" ELSE "low"]

ClientHeader ==
    "Multi-Agent E-commerce Analytics System\n"
    \o "==================================================" \o "\n\n"

RoutingInfo(routing_analysis, preferred_agent) ==
    "Query Routing Analysis:\n"
    \o "* Detected Keywords: " \o JoinComma(routing_analysis.detected_keywords) \o "\n"
    \o "* Suggested Agents: " \o JoinComma(routing_analysis.suggested_agents) \o "\n"
    \o "* Query Complexity: " \o routing_analysis.complexity \o "\n"
    \o "* Agent Preference: " \o preferred_agent \o "\n\n"

\* MultiAgentGeminiClient._format_multi_agent_response
format_multi_agent_response(response_text, routing_analysis, preferred_agent) ==
    ClientHeader \o RoutingInfo(routing_analysis, preferred_agent)
    \o "Agent Analysis Results:\n" \o "------------------------------" \o "\n\n"
    \o response_text
    \o "\n" \o "==================================================" \o "\n"
    \o "Multi-Agent System Benefits:\n"

\* what the call to the generative model can do: answer with a text, raise, or
\* answer without any candidate (response.candidates[0] raises IndexError)
ModelOutcomes == {"ok", "503 UNAVAILABLE", "list index out of range"}
ModelTexts == {"", "The Financial Analyst reports a gross margin of 40%."}

\* MultiAgentGeminiClient.query_multi_agent: try ... except Exception
query_multi_agent(user_query, preferred_agent, outcome, response_text) ==
    IF outcome # "ok"
    THEN "Error processing multi-agent query: " \o outcome
    ELSE format_multi_agent_response(response_text,
                                     analyze_query_routing(Lower(user_query)),
                                     preferred_agent)

\* MultiAgentMCPClient.query_natural_language
QueryNaturalLanguage(query, preferred_agent, outcome, response_text) ==
    /\ Idle
    /\ last' = [NoOp EXCEPT !.op = "client", !.query = query, !.outcome = outcome,
                            !.args = <<preferred_agent>>,
                            !.text = query_multi_agent(query, preferred_agent,
                                                       outcome, response_text)]
    /\ UNCHANGED <<runner, agents, interaction_history, openSessions, dbVars, phase, apiUp, rest>>

ClientPreferences == {"auto", "user_behavior_agent", "financial_reporting_agent"}

NextClient ==
    \/ Idle /\ \E q \in Queries, a \in ClientPreferences, o \in ModelOutcomes,
                  t \in ModelTexts :
                   QueryNaturalLanguage(q, a, o, IF o = "ok" THEN t ELSE "")
    \/ Deliver

SpecClient == Init /\ [][NextClient]_vars

\* C14: every string query_natural_language returns, whatever the generative
\* model did, contains the header followed by the routing analysis of the query
C14_HeaderAndRoutingAlways ==
    last.op = "client" =>
        Contains(last.text,
                 ClientHeader \o RoutingInfo(analyze_query_routing(Lower(last.query)),
                                             last.args[1]))

\* the same on the calls the generative model answered
C14_HeaderWhenAnswered ==
    (last.op = "client" /\ last.outcome = "ok") =>
        StartsWith(last.text,
                   ClientHeader \o RoutingInfo(analyze_query_routing(Lower(last.query)),
                                               last.args[1]))

----------------------------------------------------------------------------
(* Claims on the single-agent MCP server *)

\* C15: query_database answers every query description with a text response (a
\* non-empty list of text content), also a description with 'user' and 'behavior'
\* but no 'user <number>'
C15_QueryDatabaseAlwaysAnswers ==
    (last.op = "mcp_call_tool" /\ last.name = "query_database") =>
        last.returned = "text" /\ last.text # ""

\* C16: analyze_user_sessions and get_purchase_patterns answer with the analysis
\* of the records of the last days_back days (default 30), and with 'No sessions
\* found' / 'No purchases found' only when there is no such record
C16_AnalysisOfThePeriod ==
    (/\ last.op = "mcp_call_tool" /\ last.outcome = "ok"
     /\ last.name \in {"analyze_user_sessions", "get_purchase_patterns"}) =>
        LET matching == IF last.name = "analyze_user_sessions"
                        THEN Since(sessions, 30) ELSE Since(purchases, 30)
        IN  /\ last.raised = ""
            /\ ~StartsWith(last.text, "Error")
            /\ StartsWith(last.text, "No ") <=> matching = <<>>

----------------------------------------------------------------------------
(* Claims on the routing *)

UpperChar(c) ==
    CASE c = "a" -> "A" [] c = "b" -> "B" [] c = "c" -> "C" [] c = "d" -> "D"
      [] c = "e" -> "E" [] c = "f" -> "F" [] c = "g" -> "G" [] c = "h" -> "H"
      [] c = "i" -> "I" [] c = "j" -> "J" [] c = "k" -> "K" [] c = "l" -> "L"
      [] c = "m" -> "M" [] c = "n" -> "N" [] c = "o" -> "O" [] c = "p" -> "P"
      [] c = "q" -> "Q" [] c = "r" -> "R" [] c = "s" -> "S" [] c = "t" -> "T"
      [] c = "u" -> "U" [] c = "v" -> "V" [] c = "w" -> "W" [] c = "x" -> "X"
      [] c = "y" -> "Y" [] c = "z" -> "Z" [] OTHER -> c

RECURSIVE Capitals(_)
\* the query in capital letters
Capitals(s) ==
    IF Len(s) = 0 THEN ""
    ELSE UpperChar(SubSeq(s, 1, 1)) \o Capitals(SubSeq(s, 2, Len(s)))

RECURSIVE Alternating(_, _)
\* the query with every second letter position in capitals
Alternating(s, up) ==
    IF Len(s) = 0 THEN ""
    ELSE (IF up THEN UpperChar(SubSeq(s, 1, 1)) ELSE LowerChar(SubSeq(s, 1, 1)))
         \o Alternating(SubSeq(s, 2, Len(s)), ~up)

\* spellings of a query that differ from it only in the case of letters
CaseVariants(q) == {Capitals(q), Lower(q), Alternating(q, TRUE)}

\* C17: routing does not depend on the case of letters: a query and its spellings
\* in other case get the same capabilities, the same can_handle_query answers, the
\* same routed agents, and the same analysis branch of process_query
C17_CaseInsensitiveRouting ==
    /\ last.op = "route_query" =>
          \A v \in CaseVariants(last.query) :
              /\ match_capability(v) = match_capability(last.query)
              /\ \A a \in AgentIds : can_handle_query(a, v) = can_handle_query(a, last.query)
              /\ route_query(agents, v) = last.routed
    /\ last.op = "process_query" =>
          \A v \in CaseVariants(last.query) :
              process_query(last.agent, v, last.outcome).ran = last.ran

\* a query of mixed case with a keyword was routed to one agent out of two
C17_Witness ==
    /\ last.op = "route_query" /\ Len(agents) = 2 /\ Len(last.routed) = 1
    /\ last.query # Lower(last.query) /\ last.query # Capitals(last.query)
    /\ match_capability(last.query) # <<>>

----------------------------------------------------------------------------
(* The coordinator called directly: registrations and queries *)

CoordinatorQueries ==
    {"user forecast", "revenue report", "show", "forecast", "PROFIT user", "session ltv"}

\* a coordinator that logs only the queries some agent answered
CoordinatorAnswered_mut(query, outs, r) ==
    /\ last' = [NoOp EXCEPT !.op = "coordinator", !.query = query, !.args = outs,
                            !.routed = r.routed,
                            !.result = <<[query |-> r.query,
                                          agents_consulted |-> r.agents_consulted,
                                          results |-> r.results]>>]
    /\ interaction_history' = IF r.results = <<>> THEN interaction_history ELSE r.history

\* the response r of AgentCoordinator.process_query reaches the caller; the
\* history has its new entry
CoordinatorAnswered(query, outs, r) ==
    /\ last' = [NoOp EXCEPT !.op = "coordinator", !.query = query, !.args = outs,
                            !.routed = r.routed,
                            !.result = <<[query |-> r.query,
                                          agents_consulted |-> r.agents_consulted,
                                          results |-> r.results]>>]
    /\ interaction_history' = r.history

\* AgentCoordinator.process_query
CoordinatorProcessQuery(query, outs) ==
    /\ Idle /\ Len(interaction_history) < MaxCalls
    /\ CoordinatorAnswered(query, outs,
                           coordinator_process_query(agents, interaction_history, query, outs))
    /\ UNCHANGED <<runner, agents, openSessions, dbVars, phase, apiUp, rest>>

NextCoordinator ==
    \/ Idle /\ \E a \in AgentIds : RegisterAgent(a)
    \/ Idle /\ \E q \in CoordinatorQueries, outs \in [AgentIds -> Outcomes] :
                   CoordinatorProcessQuery(q, outs)
    \/ Deliver

SpecCoordinator == Init /\ [][NextCoordinator]_vars

\* the agent ids with an entry in the results of the last response
Answering == {last.result[1].results[i].agent_id : i \in DOMAIN last.result[1].results}

C18_WitnessNoResult ==
    /\ last.op = "coordinator" /\ last.result[1].agents_consulted = 2
    /\ last.result[1].results = <<>>

\* C19: interaction_history is append-only: a coordinator query appends exactly one
\* entry (the query, the ids of the routed agents, the number of results), also
\* with no result or a failed agent, and leaves the registry alone; no other step
\* touches the history
C19_HistoryAppendOnly ==
    [][ IF last'.op = "coordinator"
        THEN /\ interaction_history' =
                   Append(interaction_history,
                          [query |-> last'.query,
                           agents_used |-> route_query(agents, last'.query),
                           results_count |-> Len(last'.result[1].results)])
             /\ agents' = agents
        ELSE interaction_history' = interaction_history ]_vars

\* after two queries the history holds both in call order: the first had no result,
\* the second an agent that failed
C19_Witness ==
    /\ last.op = "coordinator" /\ Len(interaction_history) = 2
    /\ interaction_history[1].results_count = 0
    /\ interaction_history[1].query # interaction_history[2].query
    /\ interaction_history[2].query = last.query
    /\ \E i \in DOMAIN last.result[1].results : last.result[1].results[i].payload = "error"

\* C20: automatic routing is complete for the agents' own keyword lists: every
\* registered agent that can handle the query has an entry in the response
C20_RoutingComplete ==
    last.op = "coordinator" =>
        \A a \in Range(agents) : can_handle_query(a, last.query) => a \in Answering

----------------------------------------------------------------------------
(* Claims on query_multi_agent *)

\* the step is an answered call of query_multi_agent that carried a query
MultiAgentQueryStep ==
    /\ last'.op = "handle_call_tool" /\ last'.name = "query_multi_agent"
    /\ last'.args.query # <<>>

\* C21: with a preferred agent, query_multi_agent invokes that agent alone, exactly
\* when it can handle the query, and answers an error with a suggestion otherwise;
\* any other value but 'auto' answers 'Unknown agent' and invokes nobody; in these
\* cases the coordinator is not invoked (its history keeps its length).  'auto' and
\* a missing preferred_agent go to the coordinator, which logs the query.
C21_PreferredAgentOnly ==
    [][ MultiAgentQueryStep =>
          LET query == last'.args.query[1]
              preferred == IF last'.args.preferred_agent = <<>> THEN "auto"
                           ELSE last'.args.preferred_agent[1]
          IN  IF preferred \in AgentIds
              THEN /\ interaction_history' = interaction_history
                   /\ IF can_handle_query(preferred, query)
                      THEN /\ last'.ran = <<ExpectedAnalysis(preferred, query)>>
                           /\ Contains(last'.text, "handling_agent: " \o AgentName(preferred))
                      ELSE /\ last'.ran = <<>>
                           /\ Contains(last'.text, "cannot handle this query")
                           /\ Contains(last'.text, "suggestion: ")
              ELSE IF preferred # "auto"
              THEN /\ interaction_history' = interaction_history
                   /\ last'.ran = <<>>
                   /\ last'.text = "Unknown agent: " \o preferred
              ELSE /\ Len(interaction_history') = Len(interaction_history) + 1
                   /\ interaction_history'[Len(interaction_history')].query = query
                   /\ interaction_history'[Len(interaction_history')].agents_used =
                          route_query(agents, query) ]_vars

\* the financial agent was preferred for a query both agents can handle: its
\* analysis alone ran and the coordinator logged nothing
C21_Witness ==
    /\ last.op = "handle_call_tool" /\ last.name = "query_multi_agent"
    /\ last.args.query # <<>> /\ last.args.preferred_agent = <<FINANCIAL>>
    /\ can_handle_query(BEHAVIOR, last.args.query[1])
    /\ can_handle_query(FINANCIAL, last.args.query[1])
    /\ last.ran = <<financial_select(last.args.query[1])>>
    /\ interaction_history = <<>>

\* the preferred agent could not handle a query the other agent can: nobody ran
C21_WitnessRefused ==
    /\ last.op = "handle_call_tool" /\ last.name = "query_multi_agent"
    /\ last.args.query # <<>> /\ last.args.preferred_agent = <<FINANCIAL>>
    /\ can_handle_query(BEHAVIOR, last.args.query[1])
    /\ ~can_handle_query(FINANCIAL, last.args.query[1])
    /\ last.ran = <<>>

----------------------------------------------------------------------------
(* Claims on the analyses behind the keyword branches *)

\* the registered tool the claim names for each keyword branch of the behaviour agent
BranchTool ==
    [_analyze_sessions_from_query |-> "analyze_session_patterns",
     _analyze_engagement_from_query |-> "analyze_engagement_metrics",
     _analyze_retention_from_query |-> "get_user_retention",
     _analyze_device_behavior_from_query |-> "get_device_behavior",
     _analyze_segmentation_from_query |-> "get_user_segmentation"]

\* C22: the 'session', 'engagement', 'retention', 'device' and 'segment' branches of
\* UserBehaviorAgent.process_query answer with the output of the registered tool of
\* that analysis (retention with get_user_retention, device with get_device_behavior)
C22_BranchAnswersWithItsTool ==
    (/\ last.op = "process_query" /\ last.agent = BEHAVIOR /\ last.outcome = "ok"
     /\ last.ran[1] \in DOMAIN BranchTool) =>
        last.calls = <<behavior_tools[BranchTool[last.ran[1]]]>>

\* the same for the three branches that do call their registered tool
C22_SessionEngagementSegment ==
    (/\ last.op = "process_query" /\ last.agent = BEHAVIOR /\ last.outcome = "ok"
     /\ last.ran[1] \in {"_analyze_sessions_from_query", "_analyze_engagement_from_query",
                         "_analyze_segmentation_from_query"}) =>
        last.calls = <<behavior_tools[BranchTool[last.ran[1]]]>>

----------------------------------------------------------------------------
(* run_all.py DemoRunner statement by statement: the child processes it       *)
(* launches, the list self.processes it keeps of them, and the signals that    *)
(* can arrive between any two of its statements                                *)

API_SERVER == "REST API"
FRONTEND == "Multi-Agent Frontend"

\* the outcomes of setup_environment
EnvironmentOutcomes == {"ok", "GEMINI_API_KEY not set", "pip install failed"}

\* the children still running: launched and neither terminated nor killed
Running(r) == r.started \ (r.terminated \cup r.killed)

\* DemoRunner.cleanup: every process of self.processes is sent terminate and
\* waited for 5 seconds; the ones of `stubborn` have not exited by then and are
\* killed.  A process that is not in the list is not touched.
cleanup(r, stubborn) ==
    [r EXCEPT !.terminated = @ \cup (Range(r.processes) \ stubborn),
              !.killed = @ \cup (Range(r.processes) \cap stubborn)]

\* sys.exit(code) or `return code` inside the try block of run: the finally
\* clause runs next
Leave(r, code) == [r EXCEPT !.pc = "finally", !.status = <<code>>]

\* DemoRunner.setup_environment: sys.exit(1) when the API key is missing or pip
\* fails
RunnerSetupEnvironment(outcome) ==
    /\ Idle /\ runner.pc = "setup_environment"
    /\ runner' = IF outcome = "ok"
                 THEN [runner EXCEPT !.pc = "setup_database", !.environment = outcome]
                 ELSE Leave([runner EXCEPT !.environment = outcome], 1)
    /\ UNCHANGED <<agentVars, dbVars, phase, apiUp, rest>>

\* DemoRunner.setup_database: sys.exit(1) when the import or the call raises.
\* create_sample_data raises only before its own try block (create_database,
\* SessionLocal); an error while it clears or fills the tables is caught inside
\* it, and it returns normally
RunnerSetupDatabase(raised, r0, commits) ==
    /\ Idle /\ runner.pc = "setup_database"
    /\ IF raised
       THEN /\ runner' = Leave([runner EXCEPT !.seed = "raised"], 1)
            /\ UNCHANGED dbVars
       ELSE /\ Reseed(r0, commits)
            /\ runner' = [runner EXCEPT !.pc = "start_api_server",
                             !.seed = IF commits = Len(SeedCommitPoints)
                                      THEN "complete" ELSE "failed"]
    /\ UNCHANGED <<agentVars, phase, apiUp, rest>>

\* the first statement of start_api_server and of start_frontend:
\* process = subprocess.Popen(...).  When Popen raises, run returns 1.
Popen(name, spawned) ==
    /\ Idle
    /\ runner.pc = (IF name = API_SERVER THEN "start_api_server" ELSE "start_frontend")
    /\ runner' = IF spawned
                 THEN [runner EXCEPT !.pc = IF name = API_SERVER THEN "append_api_server"
                                                                  ELSE "append_frontend",
                                     !.started = @ \cup {name}]
                 ELSE Leave(runner, 1)
    /\ UNCHANGED <<agentVars, dbVars, phase, apiUp, rest>>

\* the second statement: self.processes.append((name, process))
AppendProcess(name) ==
    /\ Idle
    /\ runner.pc = (IF name = API_SERVER THEN "append_api_server" ELSE "append_frontend")
    /\ runner' = [runner EXCEPT !.pc = IF name = API_SERVER THEN "start_frontend"
                                                              ELSE "wait_for_services",
                                 !.processes = Append(@, name)]
    /\ UNCHANGED <<agentVars, dbVars, phase, apiUp, rest>>

\* DemoRunner.wait_for_services and open_browsers, then the monitoring loop, which
\* only polls and sleeps
RunnerWaitForServices ==
    /\ Idle /\ runner.pc = "wait_for_services"
    /\ runner' = [runner EXCEPT !.pc = "monitor"]
    /\ UNCHANGED <<agentVars, dbVars, phase, apiUp, rest>>

\* the signals delivered to one run of the runner
MaxSignals == 2

\* DemoRunner.signal_handler on SIGINT or SIGTERM, between any two statements of
\* the runner: cleanup(), then sys.exit(0).  Inside the try block the finally
\* clause follows; inside the finally clause the runner exits.
SignalHandler(stubborn) ==
    /\ Idle /\ runner.pc # "exited"
    /\ runner.signals < MaxSignals
    /\ stubborn \subseteq Range(runner.processes)
    /\ runner' = [cleanup(runner, stubborn) EXCEPT
                     !.signals = @ + 1, !.status = <<0>>,
                     !.pc = IF runner.pc = "finally" THEN "exited" ELSE "finally"]
    /\ UNCHANGED <<agentVars, dbVars, phase, apiUp, rest>>

\* the finally clause of run: cleanup(), then the runner exits
Finally(stubborn) ==
    /\ Idle /\ runner.pc = "finally"
    /\ stubborn \subseteq Range(runner.processes)
    /\ runner' = [cleanup(runner, stubborn) EXCEPT !.pc = "exited"]
    /\ UNCHANGED <<agentVars, dbVars, phase, apiUp, rest>>

NextRunner ==
    \/ Idle /\ \E o \in EnvironmentOutcomes : RunnerSetupEnvironment(o)
    \/ Idle /\ \E x \in BOOLEAN, r \in RngSeeds, c \in CommitInputs : RunnerSetupDatabase(x, r, c)
    \/ Idle /\ \E n \in {API_SERVER, FRONTEND}, ok \in BOOLEAN : Popen(n, ok)
    \/ Idle /\ \E n \in {API_SERVER, FRONTEND} : AppendProcess(n)
    \/ Idle /\ RunnerWaitForServices
    \/ Idle /\ \E k \in SUBSET {API_SERVER, FRONTEND} : SignalHandler(k)
    \/ Idle /\ \E k \in SUBSET {API_SERVER, FRONTEND} : Finally(k)

SpecRunner == InitSystem /\ [][NextRunner]_vars

----------------------------------------------------------------------------
(* Claims on the demo runner *)

\* C23: when the runner has exited, every child process it started has been
\* terminated or killed, whatever the exit path and wherever a signal arrived
C23_NoChildOutlivesRunner ==
    runner.pc = "exited" => Running(runner) = {}

\* C24: a service process is started only after setup_environment and
\* setup_database have both succeeded; when the API key is unset, pip fails or
\* the seeding fails, no service is ever started and the runner, unless a signal
\* ends it first, exits with status 1
C24_ServicesOnlyAfterSetup ==
    /\ runner.started # {} => runner.environment = "ok" /\ runner.seed = "complete"
    /\ (runner.pc = "exited" /\ runner.signals = 0
           /\ (runner.environment \notin {"", "ok"} \/ runner.seed \in {"failed", "raised"}))
        => runner.status = <<1>>

----------------------------------------------------------------------------
(* Claims on the seeded dataset *)

\* the ids of the rows of a table
Ids(rows) == {rows[i].id : i \in 1..Len(rows)}

\* models.py ForeignKey columns: every reference of database db names a row that
\* exists, and every review is by a user who has a purchase of the product
ReferentialIntegrity(db) ==
    /\ \A i \in 1..Len(db.sessions) : db.sessions[i].user_id \in Ids(db.users)
    /\ \A i \in 1..Len(db.page_views) :
          /\ db.page_views[i].session_id \in Ids(db.sessions)
          /\ db.page_views[i].product_id = <<>>
                \/ db.page_views[i].product_id[1] \in Ids(db.products)
    /\ \A i \in 1..Len(db.purchases) :
          /\ db.purchases[i].user_id \in Ids(db.users)
          /\ db.purchases[i].product_id \in Ids(db.products)
    /\ \A i \in 1..Len(db.reviews) :
          /\ db.reviews[i].user_id \in Ids(db.users)
          /\ db.reviews[i].product_id \in Ids(db.products)
          /\ \E j \in 1..Len(db.purchases) :
                /\ db.purchases[j].user_id = db.reviews[i].user_id
                /\ db.purchases[j].product_id = db.reviews[i].product_id

\* C25: every run of create_sample_data that completes, the first and every
\* later one, leaves a dataset of exactly SeedUsers users and SeedProducts
\* products in which every session references an existing user, every page view
\* an existing session and no product or an existing one, every purchase an
\* existing user and product, and every review a user and a product that this
\* user has purchased
C25_SeedReferentialIntegrity ==
    [][seedRuns' = seedRuns + 1
         => /\ ReferentialIntegrity(Database')
            /\ Cardinality(Ids(users')) = SeedUsers
            /\ Cardinality(Ids(products')) = SeedProducts]_vars

\* the seed has completed a second time over a seeded database, and its dataset
\* has reviews and page views with and without a product
C25_Witness ==
    /\ seedRuns >= 2
    /\ reviews # <<>> /\ purchases # <<>>
    /\ \E i, j \in 1..Len(page_views) :
          page_views[i].product_id = <<>> /\ page_views[j].product_id # <<>>

====
